---- MODULE Spec2Model ----
(***************************************************************************)
(* Verification model of the node-module version checker: the graph        *)
(* resolver (DependencyResolver, src/src/dependency_resolver.rs) and the   *)
(* differ (Differ, src/src/diff.rs).                                       *)
(*                                                                         *)
(* The recursion of resolve_package / resolve_deps and of diff_packages /  *)
(* diff_dependencies / diff_entries is modelled with an explicit call      *)
(* stack.  The iteration order of a HashMap is unspecified, so every loop  *)
(* over a dependency map picks its next name nondeterministically.         *)
(*                                                                         *)
(* The installation scope (NodeModules) and the PackageKey conversions are *)
(* not part of the sources at hand; they are modelled from the             *)
(* specification (sections 3, 4.3 and 4.5).                                *)
(*                                                                         *)
(* Further parts: the mirrored diff (Differ::diff with its arguments       *)
(* exchanged), the tree view adapter of resolved nodes                     *)
(* (src/src/ptree_impl/package.rs), the search of the enclosing workspace  *)
(* root (src/src/resolver.rs), the manifest reader                         *)
(* (src/src/package_data.rs) and the equality of version requirements      *)
(* (src/src/extended_version_req.rs).  Each part has its own variables and *)
(* its own specification; the other parts leave them alone.                *)
(***************************************************************************)
EXTENDS Integers, Sequences, FiniteSets, TLC

VARIABLES inst, packages, visiting, current_depth, stack, status, result,
          diffed_packages, dstack, dstatus, dresult,
          mirror,
          hash_order, rstack, output, renders,
          fs, workspace_roots, search,
          manifest_load,
          req_cmp

vars == <<inst, packages, visiting, current_depth, stack, status, result,
          diffed_packages, dstack, dstatus, dresult,
          mirror,
          hash_order, rstack, output, renders,
          fs, workspace_roots, search,
          manifest_load,
          req_cmp>>

resolverVars == <<packages, visiting, current_depth, stack, status, result>>
differVars == <<diffed_packages, dstack, dstatus, dresult>>
renderVars == <<hash_order, rstack, output, renders>>
searchVars == <<fs, workspace_roots, search>>
\* the variables of the parts other than the resolver and the differ
partVars == <<mirror, renderVars, searchVars, manifest_load, req_cmp>>

(***************************************************************************)
(* Bounds of the model.                                                    *)
(***************************************************************************)
\* finite values of max_depth that are tried: 0..MaxDepthBound
MaxDepthBound == 2
\* deepest chain of nested diff_packages activations that is explored
MaxDiffStack == 4

(***************************************************************************)
(* The installations.                                                      *)
(*                                                                         *)
(*   root/package.json                      manifest "root"                *)
(*   root/node_modules/{a,b,c}              manifests "a", "b", "c"        *)
(*   root/node_modules/a/node_modules/b     manifest "nb" (named b)        *)
(*                                                                         *)
(* "d" is a name that is never installed.                                  *)
(***************************************************************************)
Sides == {"L", "R"}
Names == {"a", "b", "c", "d"}
ManifestIds == {"root", "a", "b", "c", "nb"}
NoManifest == "none"
NoName == "none"
NoVersion == 0

\* Scope ids, drawn by the program from the process-global counter.
SentinelScopeId == 0
RootParentId == 1
RootScopeId == 2
NestedScopeId == 3
\* the synthetic id shared by the members of the workspace
WorkspaceScopeId == 4

\* the manifest of a workspace member (root/packages/m/package.json), part
\* of the installations of the workspace specification only
MemberId == "m"

\* stand-in for usize::MAX, the default of --depth: larger than the depth
\* of any chain of calls over the manifests of an installation
UnboundedDepth == MaxDepthBound + Cardinality(ManifestIds) + 1

NameOf(m) == IF m = "nb" THEN "b" ELSE m

\* parent_id stamped on the manifest by the scope it was gathered through
ParentIdOf(m) ==
    CASE m = "root" -> RootParentId
      [] m = "nb" -> NestedScopeId
      [] m = MemberId -> WorkspaceScopeId
      [] OTHER -> RootScopeId

WorkspaceReq == [variant |-> "Workspace", text |-> "*"]
SemVerReq == [variant |-> "SemVer", text |-> "^1"]

\* the requirement a manifest declares for the dependency name n
ReqOf(i, n) == IF n = i.ws THEN WorkspaceReq ELSE SemVerReq

\* install_path of a manifest contains a node_modules segment
InNodeModules(m) == m \notin {"root", MemberId}

\* PackageJsonData.dependencies / dev_dependencies of a loaded manifest
Dependencies(i, m) == i.deps[m]
DevDependencies(i, m) == IF InNodeModules(m) THEN {} ELSE i.devField[m]

\* install_path.join("node_modules").exists()
NodeModulesExists(i, m) == m = "root" \/ (m = "a" /\ i.nested # "none")

(***************************************************************************)
(* Installation scopes: a scope is the chain of node_modules directories   *)
(* searched for a name, the local one first.                               *)
(***************************************************************************)
LocalNames(i, scope) ==
    CASE scope = RootScopeId -> i.rootScope
      [] scope = NestedScopeId -> IF i.nested = "ok" THEN {"b"} ELSE {}
      [] OTHER -> {}

ManifestAt(scope, n) == IF scope = NestedScopeId THEN "nb" ELSE n

ScopeOfFolder(m) == IF m = "a" THEN NestedScopeId ELSE RootScopeId

RootNodeModules == <<RootScopeId>>

\* NodeModules::create_child: the folder's own node_modules, then the parent
CreateChild(nm, m) == <<ScopeOfFolder(m)>> \o nm

\* NodeModules::create_child returns an error (unreadable directory,
\* invalid manifest inside it)
CreateChildFails(i, m) == m = "a" /\ i.nested = "broken"

\* NodeModules::get_package: local map first, then the parent scope
GetPackage(i, nm, n) ==
    LET hits == {j \in 1..Len(nm) : n \in LocalNames(i, nm[j])}
        first == CHOOSE j \in hits : \A k \in hits : j <= k
    IN IF hits = {} THEN NoManifest ELSE ManifestAt(nm[first], n)

\* PackageKey::from(&PackageJsonData)
KeyOf(i, m) == [name |-> NameOf(m), version |-> i.version[m], scope |-> ParentIdOf(m)]

NoKey == [name |-> NoName, version |-> NoVersion, scope |-> SentinelScopeId]

(***************************************************************************)
(* PackageEntry and Dependency                                             *)
(***************************************************************************)
Resolved(k) == [kind |-> "Resolved", key |-> k]
Missing == [kind |-> "Missing", key |-> NoKey]
Truncated == [kind |-> "Truncated", key |-> NoKey]
NoEntry == [kind |-> "None", key |-> NoKey]

Dependency(n, req, entry) == [name |-> n, version_req |-> req, package |-> entry]

EmptyMap == [n \in {} |-> NoEntry]

Put(map, n, v) == [x \in (DOMAIN map) \cup {n} |-> IF x = n THEN v ELSE map[x]]

SeqContains(s, x) == \E j \in 1..Len(s) : s[j] = x

(***************************************************************************)
(* DependencyResolver::resolve_package, lines 54-60: the two early         *)
(* returns.  NoEntry stands for "no early return".                         *)
(***************************************************************************)
EntryCheckIgnoresVisiting(key, pkgs, vis, depth, max_depth) ==
    IF key \in DOMAIN pkgs
    THEN Resolved(key)
    ELSE IF depth > max_depth
         THEN Truncated
         ELSE NoEntry

EntryCheckTruncatedAsMissing(key, pkgs, vis, depth, max_depth) ==
    IF key \in DOMAIN pkgs \/ SeqContains(vis, key)
    THEN Resolved(key)
    ELSE IF depth > max_depth
         THEN Missing
         ELSE NoEntry

\* an entry check that does not look into the packages map
EntryCheckIgnoresPackages(key, pkgs, vis, depth, max_depth) ==
    IF SeqContains(vis, key)
    THEN Resolved(key)
    ELSE IF depth > max_depth
         THEN Truncated
         ELSE NoEntry

EntryCheck(key, pkgs, vis, depth, max_depth) ==
    IF key \in DOMAIN pkgs \/ SeqContains(vis, key)
    THEN Resolved(key)
    ELSE IF depth > max_depth
         THEN Truncated
         ELSE NoEntry

DepsScopeIgnoresNested(i, m, nm) == nm

\* lines 70-79: the scope the dependencies of the package are resolved in
DepsScope(i, m, nm) ==
    IF NodeModulesExists(i, m) THEN CreateChild(nm, m) ELSE nm

\* lines 85-93: the node that is stored for a package
Package(i, m, deps, devs) ==
    [name |-> NameOf(m), version |-> i.version[m],
     dependencies |-> deps, dev_dependencies |-> devs,
     visited |-> FALSE, data |-> m]

\* DependencyResolver::get_package
ResolverGetPackage(pkgs, key) == IF key \in DOMAIN pkgs THEN pkgs[key] ELSE NoEntry

\* an activation of resolve_package that is past line 68
Frame(i, m, nm) ==
    [data |-> m, key |-> KeyOf(i, m), sub |-> DepsScope(i, m, nm),
     phase |-> "deps", todo |-> Dependencies(i, m), pending |-> NoName,
     dependencies |-> EmptyMap, dev_dependencies |-> EmptyMap]

\* resolve_deps, lines 110-117 / 120-127: the entry is stored under the name
\* the caller is working on
WithEntry(f, n, req, entry) ==
    IF f.phase = "deps"
    THEN [f EXCEPT !.dependencies = Put(@, n, Dependency(n, req, entry)),
                   !.pending = NoName]
    ELSE [f EXCEPT !.dev_dependencies = Put(@, n, Dependency(n, req, entry)),
                   !.pending = NoName]

\* DependencyResolver::unwrap_entry
UnwrapOk(pkgs, entry) == entry.kind = "Resolved" /\ entry.key \in DOMAIN pkgs

ActiveSide == CHOOSE s \in Sides : status[s] = "running"
Running == \E s \in Sides : status[s] = "running"

\* The value `entry` is returned to the caller of the activation on top of
\* `stk` (already popped): a resolve_deps loop waiting for it, or the
\* top-level caller.
Deliver(s, stk, pkgs, entry) ==
    IF stk = <<>>
    THEN /\ stack' = <<>>
         /\ result' = [result EXCEPT ![s] = entry]
         /\ status' = [status EXCEPT ![s] = IF UnwrapOk(pkgs, entry) THEN "ok" ELSE "error"]
    ELSE LET f == stk[Len(stk)]
         IN /\ stack' = [stk EXCEPT ![Len(stk)] =
                            WithEntry(f, f.pending, ReqOf(inst[s], f.pending), entry)]
            /\ UNCHANGED <<result, status>>

\* resolve_package(data m, node_modules nm) called with the stack `stk` of
\* waiting callers
CallResolvePackage(s, stk, m, nm) ==
    LET i == inst[s]
        key == KeyOf(i, m)
        chk == EntryCheck(key, packages[s], visiting[s], current_depth[s], i.max_depth)
    IN CASE chk # NoEntry ->
              /\ Deliver(s, stk, packages[s], chk)
              /\ UNCHANGED <<packages, visiting, current_depth>>
         [] OTHER ->
              /\ visiting' = [visiting EXCEPT ![s] = Append(@, key)]
              /\ current_depth' = [current_depth EXCEPT ![s] = @ + 1]
              /\ UNCHANGED packages
              /\ IF NodeModulesExists(i, m) /\ CreateChildFails(i, m)
                 THEN \* the error is propagated by every `?` up to the top
                      /\ stack' = <<>>
                      /\ status' = [status EXCEPT ![s] = "error"]
                      /\ result' = [result EXCEPT ![s] = NoEntry]
                 ELSE /\ stack' = Append(stk, Frame(i, m, nm))
                      /\ status' = [status EXCEPT ![s] = "running"]
                      /\ UNCHANGED result

(***************************************************************************)
(* Actions of the resolver                                                 *)
(***************************************************************************)
\* DependencyResolver::resolve_root_package
ResolveRootPackage(s) ==
    /\ status[s] = "idle"
    /\ ~Running
    /\ CallResolvePackage(s, <<>>, "root", RootNodeModules)
    /\ UNCHANGED <<inst, partVars, differVars>>

\* one iteration of the loop of resolve_deps
ResolveDep ==
    /\ Running
    /\ stack # <<>>
    /\ LET s == ActiveSide
           f == stack[Len(stack)]
       IN /\ f.todo # {}
          /\ \E n \in f.todo :
               LET m == GetPackage(inst[s], f.sub, n)
                   g == [f EXCEPT !.todo = @ \ {n}, !.pending = n]
                   stk == [stack EXCEPT ![Len(stack)] = g]
               IN IF m = NoManifest
                  THEN /\ Deliver(s, stk, packages[s], Missing)
                       /\ UNCHANGED <<packages, visiting, current_depth>>
                  ELSE CallResolvePackage(s, stk, m, f.sub)
    /\ UNCHANGED <<inst, partVars, differVars>>

\* resolve_deps(dependencies) has returned, resolve_deps(dev_dependencies)
\* starts (lines 74-75 / 77-78)
ResolveDevDeps ==
    /\ Running
    /\ stack # <<>>
    /\ LET s == ActiveSide
           f == stack[Len(stack)]
       IN /\ f.phase = "deps"
          /\ f.todo = {}
          /\ stack' = [stack EXCEPT ![Len(stack)] =
                          [f EXCEPT !.phase = "dev", !.todo = DevDependencies(inst[s], f.data)]]
    /\ UNCHANGED <<inst, partVars, packages, visiting, current_depth, status, result, differVars>>

\* lines 81-98: pop, build the node, insert it, return Resolved(key)
FinishPackage ==
    /\ Running
    /\ stack # <<>>
    /\ LET s == ActiveSide
           f == stack[Len(stack)]
           pkgs == Put(packages[s], f.key,
                       Package(inst[s], f.data, f.dependencies, f.dev_dependencies))
       IN /\ f.phase = "dev"
          /\ f.todo = {}
          /\ current_depth' = [current_depth EXCEPT ![s] = @ - 1]
          /\ visiting' = [visiting EXCEPT ![s] = SubSeq(@, 1, Len(@) - 1)]
          /\ packages' = [packages EXCEPT ![s] = pkgs]
          /\ Deliver(s, SubSeq(stack, 1, Len(stack) - 1), pkgs, Resolved(f.key))
    /\ UNCHANGED <<inst, partVars, differVars>>

(***************************************************************************)
(* The family of installations of the resolver specification               *)
(***************************************************************************)
VersionChoices ==
    { [root |-> 1, a |-> 1, b |-> 1, c |-> 1, nb |-> v] : v \in {1, 2} }

DepsChoices ==
    { [root |-> r, a |-> x, b |-> y, c |-> z, nb |-> w] :
        r \in (SUBSET {"a", "b", "d"}) \ {{}},
        x \in SUBSET {"b", "c"},
        y \in SUBSET {"a", "c"},
        z \in SUBSET {"a"},
        w \in SUBSET {"c"} }

DevChoices ==
    { [root |-> r, a |-> {"c"}, b |-> {}, c |-> {}, nb |-> {}] : r \in SUBSET {"c"} }

DepthChoices == (0..MaxDepthBound) \cup {UnboundedDepth}

Installations ==
    [deps : DepsChoices, devField : DevChoices,
     rootScope : {{"a", "b", "c"}, {"a", "c"}},
     nested : {"none", "ok", "broken"},
     ws : {NoName, "b"},
     version : VersionChoices,
     max_depth : DepthChoices]

InitResolver ==
    /\ packages = [s \in Sides |-> EmptyMap]
    /\ visiting = [s \in Sides |-> <<>>]
    /\ current_depth = [s \in Sides |-> 0]
    /\ stack = <<>>
    /\ status = [s \in Sides |-> "idle"]
    /\ result = [s \in Sides |-> NoEntry]

InitDiffer ==
    /\ diffed_packages = EmptyMap
    /\ dstack = <<>>
    /\ dstatus = "idle"
    /\ dresult = NoEntry

\* no mirrored diff has been asked for
NoMirror == [kind |-> "None"]
InitMirror == mirror = NoMirror

\* the order of the maps in the specifications that print no tree of
\* resolved nodes, where hash_order is never read; the specifications that
\* print one draw the order in their Init (InitRender, InitWorkspace)
IdleHashOrder == [m \in {} |-> <<>>]
InitRenderer ==
    /\ hash_order = IdleHashOrder
    /\ rstack = <<>>
    /\ output = <<>>
    /\ renders = <<>>

\* Resolver::new: no workspace root is registered, no search is running
NoFs == [exists |-> {}, workspaces |-> <<>>, node_modules |-> {}]
NoRoots == [d \in {} |-> 0]
NoResolver == 0
IdleSearch ==
    [status |-> "idle", package_path |-> <<>>, current_path |-> <<>>,
     steps |-> 0, found |-> FALSE, root |-> <<>>,
     resolver |-> NoResolver, reused |-> FALSE]
InitSearcher ==
    /\ fs = NoFs
    /\ workspace_roots = NoRoots
    /\ search = IdleSearch

NoLoad == [status |-> "idle"]
InitLoader == manifest_load = NoLoad

NoCmp == [status |-> "idle"]
InitReqs == req_cmp = NoCmp

Init ==
    /\ \E i \in Installations : inst = [s \in Sides |-> i]
    /\ InitResolver
    /\ InitDiffer
    /\ InitMirror
    /\ InitRenderer
    /\ InitSearcher
    /\ InitLoader
    /\ InitReqs

Next ==
    \/ ResolveRootPackage("L")
    \/ ResolveDep
    \/ ResolveDevDeps
    \/ FinishPackage

Spec == Init /\ [][Next]_vars

(***************************************************************************)
(* Two resolvers over the same installation, one after the other: the      *)
(* second run is free to iterate the dependency maps in another order.     *)
(***************************************************************************)
Returned(s) == status[s] \in {"ok", "error"}

ResolveRight ==
    /\ Returned("L")
    /\ ResolveRootPackage("R")

NextOrder ==
    \/ Next
    \/ ResolveRight

SpecOrder == Init /\ [][NextOrder]_vars

(***************************************************************************)
(* The differ (src/src/diff.rs).  Differ::diff takes the root node of the  *)
(* left resolver and the root node of the right resolver.                  *)
(***************************************************************************)
\* PackageKey::from(&Package)
KeyOfPackage(i, p) == KeyOf(i, p.data)

ChangedPackageKey(kl, kr) == [left |-> kl, right |-> kr]

\* the value None of an Option<DiffedPackage> / Option<ChangedPackageEntry>
NoDiff == [kind |-> "None"]

ChangedResolved(pk) == [kind |-> "Resolved", key |-> pk]
ChangedMissing == [kind |-> "Missing"]
ChangedTruncated == [kind |-> "Truncated"]
MismatchedResolution == [kind |-> "MismatchedResolution"]

Changed(n, entry, reql, reqr) ==
    [name |-> n, kind |-> "Changed", package |-> entry,
     version_req_left |-> reql, version_req_right |-> reqr]
Removed(n, entry, req) ==
    [name |-> n, kind |-> "Removed", package |-> entry,
     version_req_left |-> req, version_req_right |-> req]
Added(n, entry, req) ==
    [name |-> n, kind |-> "Added", package |-> entry,
     version_req_left |-> req, version_req_right |-> req]

\* lines 319-327
DiffedPackage(l, r, deps, devs) ==
    [kind |-> "DiffedPackage", name |-> l.name,
     version_left |-> l.version, version_right |-> r.version,
     dependencies |-> deps, dev_dependencies |-> devs, visited |-> FALSE]

\* a diff_entries that only looks at the left entry
DiffEntriesLeafByLeft(le, re) ==
    CASE le.kind = "Missing" -> ChangedMissing
      [] le.kind = "Truncated" -> ChangedTruncated
      [] OTHER -> MismatchedResolution

\* diff_entries, lines 431-436: the pairings that need no node
DiffEntriesLeaf(le, re) ==
    CASE le.kind = "Missing" /\ re.kind = "Missing" -> ChangedMissing
      [] le.kind = "Truncated" /\ re.kind = "Truncated" -> ChangedTruncated
      [] OTHER -> MismatchedResolution

\* a diff_dependencies whose second loop inserts Removed entries
WithAddedAsRemoved(out, rmap, rest) ==
    [n \in (DOMAIN out) \cup rest |->
        IF n \in rest
        THEN Removed(n, rmap[n].package, rmap[n].version_req)
        ELSE out[n]]

\* diff_dependencies, lines 368-379: what is left of `right` is Added
WithAdded(out, rmap, rest) ==
    [n \in (DOMAIN out) \cup rest |->
        IF n \in rest
        THEN Added(n, rmap[n].package, rmap[n].version_req)
        ELSE out[n]]

\* diff_packages, lines 311-317: the pair is unchanged
Unchanged(l, r, deps, devs) ==
    /\ DOMAIN deps = {}
    /\ DOMAIN devs = {}
    /\ l.version = r.version
    /\ l.name = r.name

\* an activation of diff_packages that is past line 304
DFrame(kl, kr, l, r) ==
    [left |-> kl, right |-> kr, phase |-> "deps",
     todo |-> DOMAIN l.dependencies, rest |-> DOMAIN r.dependencies,
     pending |-> NoName, out |-> EmptyMap, dependencies |-> EmptyMap]

LeftMap(f) ==
    IF f.phase = "deps" THEN packages["L"][f.left].dependencies
                        ELSE packages["L"][f.left].dev_dependencies
RightMap(f) ==
    IF f.phase = "deps" THEN packages["R"][f.right].dependencies
                        ELSE packages["R"][f.right].dev_dependencies

\* a diff_entries that emits Resolved(pk) whatever diff_packages returned
DDeliverAlwaysResolved(stk, pk, value) ==
    IF stk = <<>>
    THEN /\ dstack' = <<>>
         /\ dresult' = value
         /\ dstatus' = "done"
    ELSE LET f == stk[Len(stk)]
             n == f.pending
             g == [f EXCEPT !.pending = NoName,
                            !.out = Put(@, n, Changed(n, ChangedResolved(pk),
                                             LeftMap(f)[n].version_req,
                                             RightMap(f)[n].version_req))]
         IN /\ dstack' = [stk EXCEPT ![Len(stk)] = g]
            /\ UNCHANGED <<dresult, dstatus>>

\* diff_packages has returned `value` for the pair pk to the activation on
\* top of `stk` (diff_entries line 424-429, diff_dependency, diff_dependencies
\* line 351-353), or to Differ::diff
DDeliver(stk, pk, value) ==
    IF stk = <<>>
    THEN /\ dstack' = <<>>
         /\ dresult' = value
         /\ dstatus' = "done"
    ELSE LET f == stk[Len(stk)]
             n == f.pending
             g == IF value = NoDiff
                  THEN [f EXCEPT !.pending = NoName]
                  ELSE [f EXCEPT !.pending = NoName,
                                 !.out = Put(@, n, Changed(n, ChangedResolved(pk),
                                                  LeftMap(f)[n].version_req,
                                                  RightMap(f)[n].version_req))]
         IN /\ dstack' = [stk EXCEPT ![Len(stk)] = g]
            /\ UNCHANGED <<dresult, dstatus>>

\* diff_packages(left node under kl, right node under kr), lines 294-304
CallDiffPackages(stk, kl, kr) ==
    LET pk == ChangedPackageKey(kl, kr)
    IN IF pk \in DOMAIN diffed_packages
       THEN DDeliver(stk, pk, diffed_packages[pk])
       ELSE /\ Len(stk) < MaxDiffStack
            /\ dstack' = Append(stk, DFrame(kl, kr, packages["L"][kl], packages["R"][kr]))
            /\ dstatus' = "running"
            /\ UNCHANGED dresult

\* the paired key of the two roots that Differ::diff is called with
RootPair == ChangedPackageKey(result["L"].key, result["R"].key)

\* Differ::diff
Diff ==
    /\ status["L"] = "ok" /\ status["R"] = "ok"
    /\ dstatus = "idle"
    /\ CallDiffPackages(<<>>, result["L"].key, result["R"].key)
    /\ UNCHANGED <<inst, partVars, resolverVars, diffed_packages>>

\* one iteration of the first loop of diff_dependencies
DiffDependency ==
    /\ dstack # <<>>
    /\ LET f == dstack[Len(dstack)]
       IN /\ f.todo # {}
          /\ \E n \in f.todo :
               LET ld == LeftMap(f)[n]
                   g == [f EXCEPT !.todo = @ \ {n}, !.rest = @ \ {n}]
               IN IF n \in f.rest
                  THEN LET rd == RightMap(f)[n]
                           le == ld.package
                           re == rd.package
                       IN IF le.kind = "Resolved" /\ re.kind = "Resolved"
                          THEN IF \/ ResolverGetPackage(packages["L"], le.key) = NoEntry
                                  \/ ResolverGetPackage(packages["R"], re.key) = NoEntry
                               THEN /\ dstack' = [dstack EXCEPT ![Len(dstack)] = g]
                                    /\ UNCHANGED <<dresult, dstatus>>
                               ELSE CallDiffPackages(
                                        [dstack EXCEPT ![Len(dstack)] = [g EXCEPT !.pending = n]],
                                        le.key, re.key)
                          ELSE /\ dstack' = [dstack EXCEPT ![Len(dstack)] =
                                      [g EXCEPT !.out = Put(@, n,
                                          Changed(n, DiffEntriesLeaf(le, re),
                                                  ld.version_req, rd.version_req))]]
                               /\ UNCHANGED <<dresult, dstatus>>
                  ELSE /\ dstack' = [dstack EXCEPT ![Len(dstack)] =
                              [g EXCEPT !.out = Put(@, n, Removed(n, ld.package, ld.version_req))]]
                       /\ UNCHANGED <<dresult, dstatus>>
    /\ UNCHANGED <<inst, partVars, resolverVars, diffed_packages>>

\* the first diff_dependencies ends with its Added entries, the one of the
\* dev_dependencies starts (lines 307-309)
DiffDevDependencies ==
    /\ dstack # <<>>
    /\ LET f == dstack[Len(dstack)]
       IN /\ f.phase = "deps"
          /\ f.todo = {}
          /\ dstack' = [dstack EXCEPT ![Len(dstack)] =
                [f EXCEPT !.phase = "dev",
                          !.dependencies = WithAdded(f.out, RightMap(f), f.rest),
                          !.out = EmptyMap,
                          !.todo = DOMAIN packages["L"][f.left].dev_dependencies,
                          !.rest = DOMAIN packages["R"][f.right].dev_dependencies]]
    /\ UNCHANGED <<inst, partVars, resolverVars, diffed_packages, dresult, dstatus>>

\* lines 311-339: return None for an unchanged pair, otherwise store the
\* node under the paired key and return it
DiffFinish ==
    /\ dstack # <<>>
    /\ LET f == dstack[Len(dstack)]
           l == packages["L"][f.left]
           r == packages["R"][f.right]
           pk == ChangedPackageKey(f.left, f.right)
           devs == WithAdded(f.out, RightMap(f), f.rest)
           stk == SubSeq(dstack, 1, Len(dstack) - 1)
       IN /\ f.phase = "dev"
          /\ f.todo = {}
          /\ IF Unchanged(l, r, f.dependencies, devs)
             THEN /\ DDeliver(stk, pk, NoDiff)
                  /\ UNCHANGED diffed_packages
             ELSE LET dp == DiffedPackage(l, r, f.dependencies, devs)
                  IN /\ diffed_packages' = Put(diffed_packages, pk, dp)
                     /\ DDeliver(stk, pk, dp)
    /\ UNCHANGED <<inst, partVars, resolverVars>>

DiffVersionChoices ==
    { [root |-> 1, a |-> 1, b |-> v, c |-> 1, nb |-> 1] : v \in {1, 2} }

DiffDepsChoices ==
    { [root |-> r, a |-> x, b |-> y, c |-> {}, nb |-> {}] :
        r \in {{"a"}, {"a", "b"}, {"a", "d"}},
        x \in SUBSET {"b"},
        y \in SUBSET {"a"} }

DiffInstallations ==
    [deps : DiffDepsChoices,
     devField : {[m \in ManifestIds |-> IF m = "root" THEN d ELSE {}] : d \in SUBSET {"c"}},
     rootScope : {{"a", "b", "c"}},
     nested : {"none"},
     ws : {NoName, "b"},
     version : DiffVersionChoices,
     max_depth : {1, UnboundedDepth}]

InitDiff ==
    /\ \E l, r \in DiffInstallations :
          /\ l.max_depth = r.max_depth
          /\ inst = [L |-> l, R |-> r]
    /\ InitResolver
    /\ InitDiffer
    /\ InitMirror
    /\ InitRenderer
    /\ InitSearcher
    /\ InitLoader
    /\ InitReqs

NextDiff ==
    \/ NextOrder
    \/ Diff
    \/ DiffDependency
    \/ DiffDevDependencies
    \/ DiffFinish

SpecDiff == InitDiff /\ [][NextDiff]_vars

(***************************************************************************)
(* The mirrored diff: after Differ::diff(left, right) has returned, a      *)
(* second Differ is built by Differ::diff(right, left).  "L" and "R" name  *)
(* the `left` and `right` fields of the Differ that is running, so the two *)
(* resolvers exchange their sides; the result and the map of the first     *)
(* Differ are kept in `mirror`.                                            *)
(***************************************************************************)
Swap(f) == [L |-> f["R"], R |-> f["L"]]

DiffMirrored ==
    /\ dstatus = "done"
    /\ mirror = NoMirror
    /\ mirror' = [kind |-> "First", dresult |-> dresult,
                  diffed_packages |-> diffed_packages]
    /\ inst' = Swap(inst)
    /\ packages' = Swap(packages)
    /\ visiting' = Swap(visiting)
    /\ current_depth' = Swap(current_depth)
    /\ status' = Swap(status)
    /\ result' = Swap(result)
    /\ diffed_packages' = EmptyMap
    /\ dresult' = NoEntry
    /\ dstatus' = "running"
    /\ LET kl == result["R"].key
           kr == result["L"].key
       IN dstack' = <<DFrame(kl, kr, packages["R"][kl], packages["L"][kr])>>
    /\ UNCHANGED <<stack, renderVars, searchVars, manifest_load, req_cmp>>

NextMirror ==
    \/ NextDiff
    \/ DiffMirrored

SpecMirror == InitDiff /\ [][NextMirror]_vars

(***************************************************************************)
(* The tree view adapter of resolved nodes (src/src/ptree_impl/package.rs, *)
(* src/src/ptree_impl/mod.rs) under the printer of the ptree crate.  The   *)
(* printer writes an item with write_self, then asks it for its children() *)
(* and prints them one after the other, depth first; its recursion is the  *)
(* stack `rstack`.  The nodes of the left resolver are the ones printed.   *)
(*                                                                         *)
(* hash_order gives, for the node of every manifest, the orders in which   *)
(* its two HashMap<String, Dependency> yield their entries.  Every map is  *)
(* built by its own HashMap::new() (dependency_resolver.rs line 106), so   *)
(* its order is not specified and is independent of the order of every     *)
(* other map; it does not change while the map is not written, and a node  *)
(* is stored once.                                                         *)
(***************************************************************************)
\* number of print_tree calls that are explored
MaxRenders == 3

RECURSIVE ValuesInOrder(_, _)
\* HashMap::values(), line 75 and line 84
ValuesInOrder(order, map) ==
    IF order = <<>>
    THEN <<>>
    ELSE (IF Head(order) \in DOMAIN map THEN <<map[Head(order)]>> ELSE <<>>)
            \o ValuesInOrder(Tail(order), map)

\* the Rc<Package> handed to the printer
PackageItem(k) == [kind |-> "Package", dependency |-> NoEntry, package |-> k]

\* populate_children, lines 44-54: package is None unless the entry is
\* Resolved and the resolver has the node
DepWithPackage(pkgs, d) ==
    [kind |-> "Child", dependency |-> d,
     package |-> IF d.package.kind = "Resolved" /\ d.package.key \in DOMAIN pkgs
                 THEN d.package.key
                 ELSE NoKey]

DevDependencySeparator ==
    [kind |-> "DevDependencySeparator", dependency |-> NoEntry, package |-> NoKey]

PopulateChildren(pkgs, deps) == [j \in 1..Len(deps) |-> DepWithPackage(pkgs, deps[j])]

\* Package::children, lines 74-91: the list of a first visit; order holds
\* the order of self.dependencies and the order of self.dev_dependencies
PackageChildren(order, pkgs, p) ==
    PopulateChildren(pkgs, ValuesInOrder(order.dependencies, p.dependencies))
        \o (IF DOMAIN p.dev_dependencies # {}
            THEN <<DevDependencySeparator>>
                    \o PopulateChildren(pkgs, ValuesInOrder(order.dev_dependencies,
                                                            p.dev_dependencies))
            ELSE <<>>)

\* a line of output: the text that write_self prints
Label(name, req, version, markers) ==
    [name |-> name, req |-> req, version |-> version, markers |-> markers]

\* Display for Dependency: <name>@<req> : <version>, [MISSING], [TRUNCATED]
DependencyDisplay(d) ==
    Label(d.name, d.version_req.text,
          IF d.package.kind = "Resolved" THEN d.package.key.version ELSE NoVersion,
          CASE d.package.kind = "Missing" -> {"[MISSING]"}
            [] d.package.kind = "Truncated" -> {"[TRUNCATED]"}
            [] OTHER -> {})

\* Display for Package: <name>@<version>, then [DEDUPED] for a visited node
PackageDisplay(p) ==
    Label(p.name, "", p.version, IF p.visited THEN {"[DEDUPED]"} ELSE {})

\* write_self: Package line 63-65, DepWithPackage lines 15-26 (the
\* dependency alone is printed), the separator mod.rs lines 44-46
WriteSelf(pkgs, item) ==
    CASE item.kind = "Package" -> PackageDisplay(pkgs[item.package])
      [] item.kind = "Child" -> DependencyDisplay(item.dependency)
      [] OTHER -> Label("", "", NoVersion, {"[DEV DEPENDENCIES]"})

\* the item is asked for its children(): it has a node that is not visited
FirstVisit(pkgs, item) == item.package # NoKey /\ ~pkgs[item.package].visited

\* children(): Package lines 67-92, DepWithPackage lines 28-34, the
\* separator mod.rs lines 50-56
Children(orders, pkgs, item) ==
    IF FirstVisit(pkgs, item)
    THEN PackageChildren(orders[pkgs[item.package].data], pkgs, pkgs[item.package])
    ELSE <<>>

\* lines 68-72: the node of the item is marked
MarkVisited(pkgs, item) ==
    IF FirstVisit(pkgs, item)
    THEN [pkgs EXCEPT ![item.package].visited = TRUE]
    ELSE pkgs

\* a refresh_visited that leaves the flags of the nodes as they are
RefreshVisitedKeepsFlags(pkgs) == pkgs

\* DependencyResolver::refresh_visited, lines 158-160
RefreshVisited(pkgs) == [k \in DOMAIN pkgs |-> [pkgs[k] EXCEPT !.visited = FALSE]]

RECURSIVE Unwind(_)
\* the printer returns from the items whose children are all printed
Unwind(stk) ==
    IF stk # <<>> /\ stk[Len(stk)] = <<>>
    THEN Unwind(SubSeq(stk, 1, Len(stk) - 1))
    ELSE stk

\* what is appended to the output for an item
Line(pkgs, item) ==
    [text |-> WriteSelf(pkgs, item), key |-> item.package,
     expanded |-> FirstVisit(pkgs, item)]

\* Package::print_tree of the node under k: refresh_visited, then the
\* printer starts with the node itself
PrintTree(k) ==
    /\ status["L"] = "ok"
    /\ ~Running
    /\ rstack = <<>>
    /\ Len(renders) < MaxRenders
    /\ k \in DOMAIN packages["L"]
    /\ packages' = [packages EXCEPT !["L"] = RefreshVisited(@)]
    /\ visiting' = [visiting EXCEPT !["L"] = <<>>]
    /\ current_depth' = [current_depth EXCEPT !["L"] = 0]
    /\ rstack' = << <<PackageItem(k)>> >>
    /\ output' = <<>>
    /\ UNCHANGED <<inst, stack, status, result, differVars, mirror,
                   hash_order, renders, searchVars, manifest_load, req_cmp>>

\* the printer prints the next item: write_self, children(), and the
\* children are queued to be printed before the item's siblings
PrintItem ==
    /\ rstack # <<>>
    /\ LET pkgs == packages["L"]
           items == rstack[Len(rstack)]
           item == Head(items)
           children == Children(hash_order, pkgs, item)
           stk == Unwind(Append([rstack EXCEPT ![Len(rstack)] = Tail(items)], children))
           out == Append(output, Line(pkgs, item))
       IN /\ output' = out
          /\ packages' = [packages EXCEPT !["L"] = MarkVisited(pkgs, item)]
          /\ rstack' = stk
          /\ renders' = IF stk = <<>> THEN Append(renders, out) ELSE renders
    /\ UNCHANGED <<inst, visiting, current_depth, stack, status, result, differVars,
                   mirror, hash_order, searchVars, manifest_load, req_cmp>>

RECURSIVE Orders(_)
\* the orders a map over the names S can have
Orders(S) ==
    IF S = {}
    THEN {<<>>}
    ELSE UNION { { <<n>> \o o : o \in Orders(S \ {n}) } : n \in S }

\* the orders that the two maps of the node of m can have
MapOrders(i, m) ==
    [dependencies : Orders(Dependencies(i, m)),
     dev_dependencies : Orders(DevDependencies(i, m))]

RECURSIVE HashOrders(_, _)
\* one choice of MapOrders for the node of every manifest in ids
HashOrders(i, ids) ==
    IF ids = {}
    THEN {[m \in {} |-> <<>>]}
    ELSE LET m == CHOOSE x \in ids : TRUE
         IN {Put(h, m, o) : h \in HashOrders(i, ids \ {m}), o \in MapOrders(i, m)}

RenderDepsChoices ==
    { [root |-> r, a |-> x, b |-> y, c |-> {}, nb |-> {}] :
        r \in (SUBSET {"a", "b", "d"}) \ {{}},
        x \in SUBSET {"b"},
        y \in SUBSET {"a"} }

RenderInstallations ==
    [deps : RenderDepsChoices,
     devField : {[m \in ManifestIds |-> IF m = "root" THEN d ELSE {}] : d \in SUBSET {"c"}},
     rootScope : {{"a", "b", "c"}},
     nested : {"none"},
     ws : {NoName},
     version : {[m \in ManifestIds |-> 1]},
     max_depth : {UnboundedDepth}]

InitRender ==
    /\ \E i \in RenderInstallations : inst = [s \in Sides |-> i]
    /\ InitResolver
    /\ InitDiffer
    /\ InitMirror
    /\ hash_order \in HashOrders(inst["L"], ManifestIds)
    /\ rstack = <<>>
    /\ output = <<>>
    /\ renders = <<>>
    /\ InitSearcher
    /\ InitLoader
    /\ InitReqs

NextRender ==
    \/ Next
    \/ \E m \in ManifestIds : PrintTree(KeyOf(inst["L"], m))
    \/ PrintItem

SpecRender == InitRender /\ [][NextRender]_vars

(***************************************************************************)
(* The search of the enclosing workspace root (src/src/resolver.rs).       *)
(*                                                                         *)
(* A canonical path is the sequence of its segments; the directories are   *)
(*                                                                         *)
(*   /    /w    /w/p    /w/p/x    /w/o                                     *)
(*                                                                         *)
(* fs.exists holds the directories that have a package.json,               *)
(* fs.workspaces the entries of its "workspaces" array (relative           *)
(* patterns, also sequences of segments) and fs.node_modules the           *)
(* directories that have a node_modules folder.                            *)
(***************************************************************************)
\* iterations of the loop of one search that are explored
MaxSearchSteps == 5

FsRoot == <<>>
W == <<"w">>
P == <<"w", "p">>
X == <<"w", "p", "x">>
O == <<"w", "o">>
Dirs == {FsRoot, W, P, X, O}

Dot == <<".">>
Patterns == {<<"p", "*">>, <<"o", "*">>, <<"*">>, Dot}

\* PathBuf::pop on a path that has a parent
Pop(path) == SubSeq(path, 1, Len(path) - 1)

\* read_package_json(dir/package.json) is Some
HasPackageJson(f, dir) == dir \in f.exists

\* get_workspace_globs, package_data.rs lines 173-180: "." is dropped, the
\* install path is put in front, an empty list is None (here {})
GetWorkspaceGlobs(f, dir) ==
    IF HasPackageJson(f, dir)
    THEN { dir \o w : w \in f.workspaces[dir] \ {Dot} }
    ELSE {}

\* Glob::new(g).is_match(path) of globset: `*` also matches `/`, so a
\* pattern dir/* matches every path that lies below dir
GlobIsMatch(g, path) ==
    /\ Len(path) >= Len(g)
    /\ SubSeq(path, 1, Len(g) - 1) = SubSeq(g, 1, Len(g) - 1)

\* build_globset_from_globs(globs).is_match(norm_for_glob(path)), lines 51-52
GlobSetIsMatch(globs, path) == \E g \in globs : GlobIsMatch(g, path)

\* glob::glob(g): `*` stays within one segment
GlobExpand(g) ==
    { d \in Dirs : Len(d) = Len(g) /\ SubSeq(d, 1, Len(g) - 1) = SubSeq(g, 1, Len(g) - 1) }

\* get_workspace_packages, workspace_data.rs lines 44-57: the install paths
\* of the members of the root at dir
Members(f, dir) ==
    { d \in UNION { GlobExpand(g) : g \in GetWorkspaceGlobs(f, dir) } : HasPackageJson(f, d) }

\* DependencyResolver::from_folder(dir) returns an error
FromFolderFails(f, dir) == dir \notin f.node_modules

\* lines 50-55: the directory that declares `globs` is taken
Selects(globs, package_path, current_path) ==
    package_path = current_path \/ GlobSetIsMatch(globs, package_path)

\* a contains_key that finds no registered root
ContainsKeyNever(roots, dir) == FALSE

\* workspace_roots.contains_key(&current_path), line 46
ContainsKey(roots, dir) == dir \in DOMAIN roots

\* DependencyResolver::from_folder, line 62-63: the Rc of a resolver that
\* did not exist before
NewResolver(roots) ==
    1 + Cardinality({ n \in 1..Cardinality(Dirs) : \E d \in DOMAIN roots : roots[d] >= n })

\* workspace_roots.insert(current_path, WorkspaceRoot {..}), lines 65-71
InsertRoot(roots, dir, id) ==
    [d \in (DOMAIN roots) \cup {dir} |-> IF d = dir THEN id ELSE roots[d]]

\* Resolver::search_workspace_root_from(q), lines 41-42
SearchWorkspaceRootFrom(q) ==
    /\ fs # NoFs
    /\ search.status \notin {"running", "panic"}
    /\ search' = [status |-> "running", package_path |-> q, current_path |-> q,
                  steps |-> 0, found |-> FALSE, root |-> <<>>,
                  resolver |-> NoResolver, reused |-> FALSE]
    /\ UNCHANGED <<inst, resolverVars, differVars, mirror, renderVars,
                   fs, workspace_roots, manifest_load, req_cmp>>

\* one iteration of the loop, lines 44-79
SearchStep ==
    /\ search.status = "running"
    /\ LET cur == search.current_path
           globs == GetWorkspaceGlobs(fs, cur)
           roots == InsertRoot(workspace_roots, cur, NewResolver(workspace_roots))
           return(dir, id, reused) ==
               [search EXCEPT !.status = "done", !.found = TRUE, !.root = dir,
                              !.resolver = id, !.reused = reused]
       IN IF HasPackageJson(fs, cur) /\ ContainsKey(workspace_roots, cur)
          THEN \* lines 46-47
               /\ search' = return(cur, workspace_roots[cur], TRUE)
               /\ UNCHANGED workspace_roots
          ELSE IF globs # {}
          THEN IF Selects(globs, search.package_path, cur)
               THEN IF FromFolderFails(fs, cur)
                    THEN \* line 63
                         /\ search' = [search EXCEPT !.status = "error"]
                         /\ UNCHANGED workspace_roots
                    ELSE \* lines 65-72
                         /\ workspace_roots' = roots
                         /\ search' = return(cur, roots[cur], FALSE)
               ELSE \* line 53: the next iteration starts at the same directory
                    /\ search.steps < MaxSearchSteps
                    /\ search' = [search EXCEPT !.steps = @ + 1]
                    /\ UNCHANGED workspace_roots
          ELSE IF cur = FsRoot
          THEN \* lines 77-81
               /\ search' = [search EXCEPT !.status = "done"]
               /\ UNCHANGED workspace_roots
          ELSE /\ search.steps < MaxSearchSteps
               /\ search' = [search EXCEPT !.current_path = Pop(cur), !.steps = @ + 1]
               /\ UNCHANGED workspace_roots
    /\ UNCHANGED <<inst, resolverVars, differVars, mirror, renderVars,
                   fs, manifest_load, req_cmp>>

\* the file systems of the search specification
FileSystems ==
    { [exists |-> {W} \cup e,
       workspaces |-> [d \in Dirs |-> CASE d = W -> ww [] d = P -> wp [] OTHER -> {}],
       node_modules |-> {P, X} \cup nm] :
        e \in SUBSET {P, X, O},
        ww \in {{}, {<<"p", "*">>}, {<<"o", "*">>}, {<<"p", "*">>, Dot}, {Dot}, {<<"*">>}},
        wp \in {{}, {<<"o", "*">>}, {<<"*">>}},
        nm \in SUBSET {W} }

\* the installation of the specifications that resolve nothing
PlainInstallation ==
    [deps |-> [m \in ManifestIds |-> IF m = "root" THEN {"a"} ELSE {}],
     devField |-> [m \in ManifestIds |-> {}],
     rootScope |-> {"a", "b", "c"},
     nested |-> "none",
     ws |-> NoName,
     version |-> [m \in ManifestIds |-> 1],
     max_depth |-> UnboundedDepth]

InitSearch ==
    /\ inst = [s \in Sides |-> PlainInstallation]
    /\ InitResolver
    /\ InitDiffer
    /\ InitMirror
    /\ InitRenderer
    /\ fs \in FileSystems
    /\ workspace_roots = NoRoots
    /\ search = IdleSearch
    /\ InitLoader
    /\ InitReqs

NextSearch ==
    \/ \E q \in Dirs : SearchWorkspaceRootFrom(q)
    \/ SearchStep

SpecSearch == InitSearch /\ [][NextSearch]_vars

(***************************************************************************)
(* Resolver::resolve (src/src/resolver.rs lines 84-108): when the search   *)
(* has returned a workspace root, the manifest of the path is asked of the *)
(* root's data; the `expect` panics when there is none.                    *)
(***************************************************************************)
NoDir == <<"none">>

\* WorkspaceData::get_member_data_from_path, workspace_data.rs lines 29-41
GetMemberDataFromPath(f, root, path) ==
    IF path \in Members(f, root) THEN path ELSE NoDir

\* PackageJsonData::get_data_from_path, package_data.rs lines 113-122
GetDataFromPath(f, root, path) ==
    IF path = root THEN root ELSE GetMemberDataFromPath(f, root, path)

\* lines 87-91
ResolveGetData ==
    /\ search.status = "done"
    /\ search.found
    /\ search' = [search EXCEPT !.status =
                      IF GetDataFromPath(fs, search.root, search.package_path) # NoDir
                      THEN "data"
                      ELSE "panic"]
    /\ UNCHANGED <<inst, resolverVars, differVars, mirror, renderVars,
                   fs, workspace_roots, manifest_load, req_cmp>>

NextResolve ==
    \/ NextSearch
    \/ ResolveGetData

SpecResolve == InitSearch /\ [][NextResolve]_vars

(***************************************************************************)
(* The manifest reader (src/src/package_data.rs): from_value is given the  *)
(* path the manifest was reached through, which may lead through a         *)
(* symbolic link.  links maps a directory that may be a link to the        *)
(* canonical path it points to (NoLink: it is a plain directory).          *)
(***************************************************************************)
NoLink == <<>>
WLink == <<"w", "link">>
WNodeModulesA == <<"w", "node_modules", "a">>
LinkPaths == {WLink, WNodeModulesA}

GivenPaths ==
    {W, X, WLink, WNodeModulesA,
     <<"w", "node_modules", "a", "node_modules", "b">>,
     <<"w", "my_node_modules_copy", "a">>}

\* the segment has the text node_modules in it
SegmentContainsNodeModules(seg) == seg \in {"node_modules", "my_node_modules_copy"}

\* install_path.to_string_lossy().contains("node_modules"), line 70
ContainsNodeModules(path) ==
    \E j \in 1..Len(path) : SegmentContainsNodeModules(path[j])

\* one symbolic link at the front of the path is followed
FollowLink(links, path) ==
    IF \E l \in LinkPaths :
          links[l] # NoLink /\ Len(l) <= Len(path) /\ SubSeq(path, 1, Len(l)) = l
    THEN LET l == CHOOSE l \in LinkPaths :
                     links[l] # NoLink /\ Len(l) <= Len(path) /\ SubSeq(path, 1, Len(l)) = l
         IN links[l] \o SubSeq(path, Len(l) + 1, Len(path))
    ELSE path

\* Path::canonicalize, line 80: a link may point into another link
Canonicalize(links, path) == FollowLink(links, FollowLink(links, path))

\* PackageJsonData::from_value, lines 69-80: the install path and the
\* dev_dependencies of the record
FromValue(links, given, dev_field) ==
    [install_path |-> Canonicalize(links, given),
     dev_dependencies |-> IF ContainsNodeModules(given) THEN {} ELSE dev_field]

NoRecord == [install_path |-> <<>>, dev_dependencies |-> {}]

\* PackageJsonData::from_folder_with_id on the path and the manifest that
\* were drawn
FromFolderWithId ==
    /\ manifest_load.status = "read"
    /\ manifest_load' =
          [manifest_load EXCEPT
              !.status = "loaded",
              !.record = FromValue(manifest_load.links, manifest_load.given,
                                   manifest_load.dev_field)]
    /\ UNCHANGED <<inst, resolverVars, differVars, mirror, renderVars, searchVars,
                   req_cmp>>

LinkChoices ==
    { [l \in LinkPaths |-> IF l = WLink THEN t ELSE u] :
        t \in {NoLink, WNodeModulesA, X},
        u \in {NoLink, X} }

InitLoad ==
    /\ inst = [s \in Sides |-> PlainInstallation]
    /\ InitResolver
    /\ InitDiffer
    /\ InitMirror
    /\ InitRenderer
    /\ InitSearcher
    /\ \E given \in GivenPaths, links \in LinkChoices, dev \in SUBSET {"c", "d"} :
          manifest_load = [status |-> "read", given |-> given, links |-> links,
                           dev_field |-> dev, record |-> NoRecord]
    /\ InitReqs

NextLoad == FromFolderWithId

SpecLoad == InitLoad /\ [][NextLoad]_vars

(***************************************************************************)
(* The equality of version requirements                                    *)
(* (src/src/extended_version_req.rs).  A requirement has its variant, the  *)
(* text of its payload (for SemVer the canonical range string) and, for    *)
(* Or, the list of its parts.                                              *)
(***************************************************************************)
Req(variant, text) == [variant |-> variant, text |-> text, parts |-> <<>>]
Or(parts) == [variant |-> "Or", text |-> "", parts |-> parts]

\* requirements that ExtendedVersionReq::parse returns for one range
AtomReqs ==
    {Req("SemVer", "^1"), Req("SemVer", "^2"),
     Req("Workspace", "*"), Req("Workspace", "^"),
     Req("Unchecked", "latest")}

\* parse, lines 16-23: a text that starts with workspace: is never split
OrReqs ==
    { Or(<<a, b>>) : a \in {r \in AtomReqs : r.variant # "Workspace"}, b \in AtomReqs }

Reqs == AtomReqs \cup OrReqs

RECURSIVE ReqEq(_, _)
\* impl PartialEq for ExtendedVersionReq, lines 44-51
ReqEq(a, b) ==
    CASE a.variant = "SemVer" /\ b.variant = "SemVer" -> a.text = b.text
      [] a.variant = "Unchecked" /\ b.variant = "Unchecked" -> a.text = b.text
      [] a.variant = "Or" /\ b.variant = "Or" ->
            \A i \in 1..Len(a.parts) : \E j \in 1..Len(b.parts) : ReqEq(a.parts[i], b.parts[j])
      [] OTHER -> FALSE

\* Display for DiffedDependency, diff.rs lines 48-59: the requirement of a
\* Changed entry is printed as (left -> right) when left != right
ShowsChange(l, r) == ~ReqEq(l, r)

\* a Changed entry with the requirements that were drawn is printed, and
\* so is its mirror
CompareReqs ==
    /\ req_cmp.status = "drawn"
    /\ req_cmp' = [req_cmp EXCEPT
                      !.status = "compared",
                      !.eq = ReqEq(req_cmp.left, req_cmp.right),
                      !.eq_mirror = ReqEq(req_cmp.right, req_cmp.left),
                      !.shows_change = ShowsChange(req_cmp.left, req_cmp.right)]
    /\ UNCHANGED <<inst, resolverVars, differVars, mirror, renderVars, searchVars,
                   manifest_load>>

InitCompare ==
    /\ inst = [s \in Sides |-> PlainInstallation]
    /\ InitResolver
    /\ InitDiffer
    /\ InitMirror
    /\ InitRenderer
    /\ InitSearcher
    /\ InitLoader
    /\ \E l, r \in Reqs :
          req_cmp = [status |-> "drawn", left |-> l, right |-> r,
                     eq |-> FALSE, eq_mirror |-> FALSE, shows_change |-> FALSE]

NextCompare == CompareReqs

SpecCompare == InitCompare /\ [][NextCompare]_vars

(***************************************************************************)
(* ExtendedVersionReq::matches.  A version is its major number; the range  *)
(* ^M holds the versions of major M.  The Option<bool> that is returned is *)
(* one of SomeOf(TRUE), SomeOf(FALSE) and NoneOf.                          *)
(***************************************************************************)
Versions == 1..4

SomeOf(b) == [some |-> TRUE, value |-> b]
NoneOf == [some |-> FALSE, value |-> FALSE]

\* the major number of the caret range of a SemVer requirement
CaretMajor(text) == IF text = "^1" THEN 1 ELSE 2

\* semver::VersionReq::matches
VersionReqMatches(text, version) == version = CaretMajor(text)

\* an Or arm in which a part that cannot be checked counts as a match
AnyOfCheckedOrUnchecked(results) ==
    \E j \in 1..Len(results) : results[j] # SomeOf(FALSE)

\* lines 33-36: filter_map drops the None results, any looks for a true one
AnyOfChecked(results) ==
    \E j \in 1..Len(results) : results[j].some /\ results[j].value

RECURSIVE Matches(_, _)
\* ExtendedVersionReq::matches, lines 29-40
Matches(req, version) ==
    CASE req.variant = "SemVer" -> SomeOf(VersionReqMatches(req.text, version))
      [] req.variant = "Or" ->
            SomeOf(AnyOfChecked([j \in 1..Len(req.parts) |-> Matches(req.parts[j], version)]))
      [] OTHER -> NoneOf

\* matches is called on the requirement and the version that were drawn
MatchesVersion ==
    /\ req_cmp.status = "to match"
    /\ req_cmp' = [req_cmp EXCEPT !.status = "matched",
                                  !.matches = Matches(req_cmp.req, req_cmp.version)]
    /\ UNCHANGED <<inst, resolverVars, differVars, mirror, renderVars, searchVars,
                   manifest_load>>

InitMatches ==
    /\ inst = [s \in Sides |-> PlainInstallation]
    /\ InitResolver
    /\ InitDiffer
    /\ InitMirror
    /\ InitRenderer
    /\ InitSearcher
    /\ InitLoader
    /\ \E r \in Reqs, v \in Versions :
          req_cmp = [status |-> "to match", req |-> r, version |-> v, matches |-> NoneOf]

NextMatches == MatchesVersion

SpecMatches == InitMatches /\ [][NextMatches]_vars

(***************************************************************************)
(* The tree view adapter of diff nodes (src/src/ptree_impl/diff.rs) under  *)
(* the printer: DiffedPackage::print_tree prints the node that             *)
(* Differ::diff returned.  The lists of children are sorted by name.  The  *)
(* `visiting` flags that should_display sets and clears around its         *)
(* recursion are the set `vis` of the paired keys whose flag is set.       *)
(***************************************************************************)
SortedNames == <<"a", "b", "c", "d">>

\* sorted_values, mod.rs lines 77-84
SortedValues(map) == ValuesInOrder(SortedNames, map)

NoPair == ChangedPackageKey(NoKey, NoKey)

\* a get_package that finds no node
DifferGetPackageNone(dps, pk) == NoPair

\* Differ::get_package, diff.rs lines 439-445
DifferGetPackage(dps, pk) == IF pk \in DOMAIN dps THEN pk ELSE NoPair

IsChangedResolved(d) == d.kind = "Changed" /\ d.package.kind = "Resolved"

\* the Rc<DiffedPackage> handed to the printer
DiffedPackageItem(pk) == [kind |-> "DiffedPackage", dependency |-> NoEntry, package |-> pk]

\* DiffedPackage::populate_children, lines 121-145
DiffedDepWithPackage(dps, d) ==
    [kind |-> "Child", dependency |-> d,
     package |-> IF IsChangedResolved(d)
                 THEN DifferGetPackage(dps, d.package.key)
                 ELSE NoPair]

DiffedSeparator ==
    [kind |-> "DevDependencySeparator", dependency |-> NoEntry, package |-> NoPair]

DiffedPopulateChildren(dps, deps) ==
    [j \in 1..Len(deps) |-> DiffedDepWithPackage(dps, deps[j])]

\* DiffedPackage::get_children, lines 147-166
DiffedGetChildren(dps, pk) ==
    DiffedPopulateChildren(dps, SortedValues(dps[pk].dependencies))
        \o (IF DOMAIN dps[pk].dev_dependencies # {}
            THEN <<DiffedSeparator>>
                    \o DiffedPopulateChildren(dps, SortedValues(dps[pk].dev_dependencies))
            ELSE <<>>)

\* DiffedDepWithPackage::get_children, lines 21-28
ItemGetChildren(dps, item) ==
    IF item.package # NoPair THEN DiffedGetChildren(dps, item.package) ELSE <<>>

\* Visiting for DiffedDepWithPackage, lines 87-94
ItemVisiting(vis, item) == item.package \in vis

\* DiffedDepWithPackage::visited, lines 30-35
ItemVisited(dps, item) == item.package # NoPair /\ dps[item.package].visited

RECURSIVE ShouldDisplay(_, _, _)
\* ShouldDisplay for DiffedDepWithPackage, lines 50-85, and for the
\* separator, mod.rs lines 59-66
ShouldDisplay(dps, vis, item) ==
    IF item.kind = "Child" /\ IsChangedResolved(item.dependency)
    THEN LET key == item.dependency.package.key
         IN \/ key.left.name # key.right.name
            \/ key.left.version # key.right.version
            \/ IF item.package # NoPair
               THEN IF ItemVisited(dps, item)
                    THEN FALSE
                    ELSE LET children == ItemGetChildren(dps, item)
                             during == vis \cup {item.package}
                         IN \E j \in 1..Len(children) :
                                /\ ~ItemVisiting(during, children[j])
                                /\ ShouldDisplay(dps, during, children[j])
               ELSE FALSE
    ELSE TRUE

\* children(): lines 103-117 and 176-188, called when the node of the item
\* is not marked; the mark is set before the children are filtered
FilteredChildren(dps, item) ==
    LET marked == [dps EXCEPT ![item.package].visited = TRUE]
    IN SelectSeq(ItemGetChildren(marked, item), LAMBDA c : ShouldDisplay(marked, {}, c))

DiffedFirstVisit(dps, item) == item.package # NoPair /\ ~dps[item.package].visited

DiffedChildren(dps, item) ==
    IF DiffedFirstVisit(dps, item) THEN FilteredChildren(dps, item) ELSE <<>>

DiffedMarkVisited(dps, item) ==
    IF DiffedFirstVisit(dps, item)
    THEN [dps EXCEPT ![item.package].visited = TRUE]
    ELSE dps

\* Differ::refresh_visited, diff.rs lines 447-451
DifferRefreshVisited(dps) == [pk \in DOMAIN dps |-> [dps[pk] EXCEPT !.visited = FALSE]]

\* what is appended to the output for an item: its name, its node, the
\* [DEDUPED] marker and the children the printer was given
DiffedLine(dps, item, children) ==
    [name |-> IF item.kind = "Child" THEN item.dependency.name
              ELSE IF item.kind = "DiffedPackage" THEN dps[item.package].name
              ELSE NoName,
     key |-> item.package,
     deduped |-> ItemVisited(dps, item),
     expanded |-> DiffedFirstVisit(dps, item),
     children |-> children]

\* DiffedPackage::print_tree on the node Differ::diff returned, diff.rs
\* lines 229-236
DiffedPrintTree ==
    /\ dstatus = "done"
    /\ dresult # NoDiff
    /\ rstack = <<>>
    /\ Len(renders) < MaxRenders
    /\ diffed_packages' = DifferRefreshVisited(diffed_packages)
    /\ rstack' = << <<DiffedPackageItem(RootPair)>> >>
    /\ output' = <<>>
    /\ UNCHANGED <<inst, resolverVars, dstack, dstatus, dresult, mirror,
                   hash_order, renders, searchVars, manifest_load, req_cmp>>

\* the printer prints the next item of the diff tree
DiffedPrintItem ==
    /\ dstatus = "done"
    /\ rstack # <<>>
    /\ LET items == rstack[Len(rstack)]
           item == Head(items)
           children == DiffedChildren(diffed_packages, item)
           stk == Unwind(Append([rstack EXCEPT ![Len(rstack)] = Tail(items)], children))
           out == Append(output, DiffedLine(diffed_packages, item, children))
       IN /\ output' = out
          /\ diffed_packages' = DiffedMarkVisited(diffed_packages, item)
          /\ rstack' = stk
          /\ renders' = IF stk = <<>> THEN Append(renders, out) ELSE renders
    /\ UNCHANGED <<inst, resolverVars, dstack, dstatus, dresult, mirror,
                   hash_order, searchVars, manifest_load, req_cmp>>

\* the installations of the diff view: root -> a, c; a -> b; c -> b; b -> d
DiffRenderDepsChoices ==
    { [root |-> r, a |-> x, b |-> y, c |-> z, nb |-> {}] :
        r \in {{"a"}, {"a", "c"}},
        x \in SUBSET {"b"},
        y \in SUBSET {"d"},
        z \in SUBSET {"b"} }

DiffRenderInstallations ==
    [deps : DiffRenderDepsChoices,
     devField : {[m \in ManifestIds |-> {}]},
     rootScope : {{"a", "b", "c"}},
     nested : {"none"},
     ws : {NoName},
     version : DiffVersionChoices,
     max_depth : {UnboundedDepth}]

InitDiffRender ==
    /\ \E l, r \in DiffRenderInstallations : inst = [L |-> l, R |-> r]
    /\ InitResolver
    /\ InitDiffer
    /\ InitMirror
    /\ InitRenderer
    /\ InitSearcher
    /\ InitLoader
    /\ InitReqs

NextDiffRender ==
    \/ NextDiff
    \/ DiffedPrintTree
    \/ DiffedPrintItem

SpecDiffRender == InitDiffRender /\ [][NextDiffRender]_vars

(***************************************************************************)
(* One DependencyResolver shared by the calls of a Resolver                *)
(* (src/src/resolver.rs): the workspace root is resolved, and later calls  *)
(* resolve the member or the root again through the resolver cached in     *)
(* workspace_roots.  The calls are made on the left side.                  *)
(***************************************************************************)
\* Resolver::resolve_workspace_members (lines 124-147) on the registered
\* root: the member is resolved with the scope that get_from_path gives
\* for its install path, the root scope, whether or not it has a
\* node_modules folder of its own
ResolveMember ==
    /\ Returned("L")
    /\ ~Running
    /\ rstack = <<>>
    /\ CallResolvePackage("L", <<>>, MemberId, RootNodeModules)
    /\ UNCHANGED <<inst, partVars, differVars>>

\* Resolver::resolve on the path of the member (lines 84-96): the member has
\* no node_modules folder of its own, get_node_modules_path() is None and
\* the call returns the error of lines 93-96 before the shared resolver is
\* reached
ResolveMemberPath ==
    /\ Returned("L")
    /\ ~Running
    /\ rstack = <<>>
    /\ ~NodeModulesExists(inst["L"], MemberId)
    /\ status' = [status EXCEPT !["L"] = "error"]
    /\ result' = [result EXCEPT !["L"] = NoEntry]
    /\ UNCHANGED <<inst, packages, visiting, current_depth, stack, partVars, differVars>>

\* Resolver::resolve on the path of the root once more (lines 84-108)
ResolveRootAgain ==
    /\ Returned("L")
    /\ ~Running
    /\ rstack = <<>>
    /\ CallResolvePackage("L", <<>>, "root", RootNodeModules)
    /\ UNCHANGED <<inst, partVars, differVars>>

WorkspaceManifestIds == ManifestIds \cup {MemberId}

WorkspaceDepsChoices ==
    { [root |-> r, a |-> x, b |-> z, c |-> {}, nb |-> {}, m |-> y] :
        r \in {{"a"}, {"a", "b"}},
        x \in SUBSET {"b"},
        z \in SUBSET {"c"},
        y \in SUBSET {"a", "b"} }

WorkspaceInstallations ==
    [deps : WorkspaceDepsChoices,
     devField : {[k \in WorkspaceManifestIds |-> IF k = MemberId THEN d ELSE {}] :
                    d \in SUBSET {"c"}},
     rootScope : {{"a", "b", "c"}},
     nested : {"none", "ok", "broken"},
     ws : {NoName},
     version : {[k \in WorkspaceManifestIds |-> 1]},
     max_depth : {1, 2, UnboundedDepth}]

InitWorkspace ==
    /\ \E i \in WorkspaceInstallations : inst = [s \in Sides |-> i]
    /\ InitResolver
    /\ InitDiffer
    /\ InitMirror
    /\ hash_order \in HashOrders(inst["L"], WorkspaceManifestIds)
    /\ rstack = <<>>
    /\ output = <<>>
    /\ renders = <<>>
    /\ InitSearcher
    /\ InitLoader
    /\ InitReqs

NextWorkspace ==
    \/ Next
    \/ ResolveMember
    \/ ResolveMemberPath
    \/ ResolveRootAgain
    \/ \E k \in WorkspaceManifestIds : PrintTree(KeyOf(inst["L"], k))
    \/ PrintItem

SpecWorkspace == InitWorkspace /\ [][NextWorkspace]_vars

(***************************************************************************)
(* Helpers of the properties                                               *)
(***************************************************************************)
\* the entries of a node: dependencies and dev_dependencies
EntriesOf(p) ==
    {p.dependencies[n].package : n \in DOMAIN p.dependencies}
        \cup {p.dev_dependencies[n].package : n \in DOMAIN p.dev_dependencies}

AllKeys(i) == {KeyOf(i, m) : m \in ManifestIds}

\* keys that have neither a node nor an activation
FreshKeys(s) ==
    {k \in AllKeys(inst[s]) : k \notin DOMAIN packages[s] /\ ~SeqContains(visiting[s], k)}

\* what an activation still has to do: its return, the names left in the
\* map it is iterating, and the dev_dependencies map when not yet started
FrameWork(i, f) ==
    1 + Cardinality(f.todo)
      + (IF f.phase = "deps" THEN 1 + Cardinality(DevDependencies(i, f.data)) ELSE 0)

RECURSIVE FramesWork(_, _)
FramesWork(i, stk) ==
    IF stk = <<>> THEN 0 ELSE FrameWork(i, Head(stk)) + FramesWork(i, Tail(stk))

\* more than the work a new activation can add
FrameBudget == 2 * Cardinality(Names) + 3

Measure ==
    IF stack = <<>>
    THEN 0
    ELSE Cardinality(FreshKeys(ActiveSide)) * FrameBudget
            + FramesWork(inst[ActiveSide], stack)

NoKeyTwice(stk) ==
    \A j, k \in 1..Len(stk) : j # k => stk[j].key # stk[k].key

Cyclic(i) ==
    /\ {"a", "b"} \subseteq i.rootScope
    /\ "b" \in i.deps["a"]
    /\ "a" \in i.deps["b"]
    /\ i.nested = "none"

\* C1: every step of a top-level resolve strictly decreases a measure in
\* the natural numbers, and no key has two activations on the call stack:
\* a key that is in packages or on the visiting stack is answered with
\* Resolved(key) without a new activation, so the call returns after
\* finitely many steps, also on cyclic installations and without a depth
\* cap.
C1_ResolveTerminates ==
    [][stack # <<>> => (Measure' < Measure /\ Measure' >= 0 /\ NoKeyTwice(stack'))]_vars

\* a resolve of a <-> b without depth cap has returned; the arc that closes
\* the cycle was answered while its target was on the visiting stack
C1_Witness ==
    /\ status["L"] = "ok"
    /\ Cyclic(inst["L"])
    /\ inst["L"].max_depth = UnboundedDepth
    /\ LET ka == KeyOf(inst["L"], "a")
           kb == KeyOf(inst["L"], "b")
       IN /\ {ka, kb} \subseteq DOMAIN packages["L"]
          /\ packages["L"][ka].dependencies["b"].package = Resolved(kb)
          /\ packages["L"][kb].dependencies["a"].package = Resolved(ka)

\* length of the longest path of Resolved edges that starts at k and
\* visits no node twice
RECURSIVE LongestResolvedPath(_, _, _)
LongestResolvedPath(pkgs, k, seen) ==
    LET succ == {e.key : e \in {x \in EntriesOf(pkgs[k]) : x.kind = "Resolved"}}
        next == {k2 \in succ : k2 \notin seen /\ k2 \in DOMAIN pkgs}
        lens == {1 + LongestResolvedPath(pkgs, k2, seen \cup {k2}) : k2 \in next}
    IN IF next = {} THEN 0 ELSE CHOOSE l \in lens : \A l2 \in lens : l2 <= l

\* C3 (as claimed): two resolves of the same installation with the same
\* max_depth build the same packages map, whatever the iteration orders.
C3_Original ==
    (status["L"] = "ok" /\ status["R"] = "ok") => packages["L"] = packages["R"]

\* C4 (as claimed): no path from the root has more than max_depth Resolved
\* edges.
C4_Original ==
    \A s \in Sides :
        status[s] = "ok" =>
            LongestResolvedPath(packages[s], KeyOf(inst[s], "root"),
                                {KeyOf(inst[s], "root")}) <= inst[s].max_depth

\* C5 (as claimed): after a top-level resolve has returned successfully,
\* every Resolved(k) entry of every node stored in the resolver has its node
\* in packages (get_package(k) is not None), whatever calls the resolver
\* served before.
C5_Original ==
    \A s \in Sides :
        status[s] = "ok" =>
            \A k \in DOMAIN packages[s] :
                \A e \in EntriesOf(packages[s][k]) :
                    e.kind = "Resolved" =>
                        /\ e.key \in DOMAIN packages[s]
                        /\ ResolverGetPackage(packages[s], e.key) # NoEntry

\* C6 (as claimed): after any top-level resolve has returned, visiting is
\* empty and current_depth is 0.
C6_Original ==
    \A s \in Sides :
        Returned(s) => (visiting[s] = <<>> /\ current_depth[s] = 0)

SentinelKey(n) == [name |-> n, version |-> NoVersion, scope |-> SentinelScopeId]

\* C7 (as claimed): an edge with a Workspace requirement whose name the
\* scope resolves carries Resolved(sentinel key), and the sentinel key has
\* no node.
C7_Original ==
    \A s \in Sides :
        \A k \in DOMAIN packages[s] :
            \A n \in DOMAIN packages[s][k].dependencies :
                (/\ packages[s][k].dependencies[n].version_req.variant = "Workspace"
                 /\ n \in inst[s].rootScope)
                    => /\ packages[s][k].dependencies[n].package = Resolved(SentinelKey(n))
                       /\ SentinelKey(n) \notin DOMAIN packages[s]

NestedOverride(i) ==
    /\ i.nested = "ok"
    /\ {"a", "b"} \subseteq i.rootScope

\* the edge from the node of manifest m to the name b leads to manifest t
EdgeResolvesTo(s, m, t) ==
    LET i == inst[s]
        e == packages[s][KeyOf(i, m)].dependencies["b"].package
    IN /\ e = Resolved(KeyOf(i, t))
       /\ KeyOf(i, t) \in DOMAIN packages[s]
       /\ packages[s][KeyOf(i, t)].data = t

EdgeTruncated(s, m) ==
    packages[s][KeyOf(inst[s], m)].dependencies["b"].package = Truncated

HasEdge(s, m) ==
    /\ KeyOf(inst[s], m) \in DOMAIN packages[s]
    /\ "b" \in inst[s].deps[m]

\* C8 (as claimed): with b in a's own node_modules and in the parent scope,
\* a -> b leads to the nested manifest and root -> b to the parent's one,
\* and both nodes are in packages.
C8_Original ==
    \A s \in Sides :
        (status[s] = "ok" /\ NestedOverride(inst[s])) =>
            /\ HasEdge(s, "a") => EdgeResolvesTo(s, "a", "nb")
            /\ HasEdge(s, "root") => EdgeResolvesTo(s, "root", "b")
            /\ KeyOf(inst[s], "nb").scope # KeyOf(inst[s], "b").scope

\* C8 (amended): each of the two edges is either cut by the depth cap
\* (Truncated) or leads to the manifest of its own scope: a -> b to the
\* nested one, root -> b to the parent's one; the two keys differ in
\* scope_id and a Resolved edge has its node in packages.
C8_NestedScopeWins ==
    \A s \in Sides :
        (status[s] = "ok" /\ NestedOverride(inst[s])) =>
            /\ HasEdge(s, "a") => (EdgeTruncated(s, "a") \/ EdgeResolvesTo(s, "a", "nb"))
            /\ HasEdge(s, "root") => (EdgeTruncated(s, "root") \/ EdgeResolvesTo(s, "root", "b"))
            /\ KeyOf(inst[s], "nb").scope # KeyOf(inst[s], "b").scope

\* both edges resolved, nested b and hoisted b have the same name and
\* version and still are two nodes
C8_Witness ==
    /\ status["L"] = "ok"
    /\ NestedOverride(inst["L"])
    /\ inst["L"].version["nb"] = inst["L"].version["b"]
    /\ HasEdge("L", "a") /\ EdgeResolvesTo("L", "a", "nb")
    /\ HasEdge("L", "root") /\ EdgeResolvesTo("L", "root", "b")
    /\ KeyOf(inst["L"], "nb") # KeyOf(inst["L"], "b")

\* the name is installed in the scope or in one of its ancestors
FoundInScopes(i, nm, n) == \E j \in 1..Len(nm) : n \in LocalNames(i, nm[j])

MissingIffNotFound(i, nm, map) ==
    \A n \in DOMAIN map :
        /\ map[n].package.kind \in {"Resolved", "Missing", "Truncated"}
        /\ map[n].package.kind = "Missing" <=> ~FoundInScopes(i, nm, n)

\* C9: an entry is Missing exactly when its name is installed neither in
\* the scope of the node nor in an ancestor scope; a missing dependency
\* raises no error, and the node is stored with an entry for every
\* declared name.
C9_MissingEntries ==
    /\ \A j \in 1..Len(stack) :
          /\ MissingIffNotFound(inst[ActiveSide], stack[j].sub, stack[j].dependencies)
          /\ MissingIffNotFound(inst[ActiveSide], stack[j].sub, stack[j].dev_dependencies)
    /\ \A s \in Sides :
          /\ \A k \in DOMAIN packages[s] :
                /\ DOMAIN packages[s][k].dependencies
                      = Dependencies(inst[s], packages[s][k].data)
                /\ DOMAIN packages[s][k].dev_dependencies
                      = DevDependencies(inst[s], packages[s][k].data)
          /\ status[s] = "error" => inst[s].nested = "broken"

\* the root is stored with a Missing entry for d next to a Resolved one
C9_Witness ==
    /\ status["L"] = "ok"
    /\ LET p == packages["L"][KeyOf(inst["L"], "root")]
       IN /\ {"a", "d"} \subseteq DOMAIN p.dependencies
          /\ p.dependencies["d"].package = Missing
          /\ p.dependencies["a"].package.kind = "Resolved"

NoPairTwice(stk) ==
    \A j, k \in 1..Len(stk) :
        j # k => ChangedPackageKey(stk[j].left, stk[j].right)
                    # ChangedPackageKey(stk[k].left, stk[k].right)

\* C2 (as claimed): diff_packages never has two activations for the same
\* paired key: the second descent through the pair returns from the memo.
C2_Original == NoPairTwice(dstack)

\* C10 (as claimed): the diff of a resolved graph against an identically
\* resolved copy is None.
C10_Original ==
    (dstatus = "done" /\ inst["L"] = inst["R"] /\ packages["L"] = packages["R"])
        => dresult = NoDiff

(***************************************************************************)
(* C11: diff_packages returns a node only for a pair that differs in name  *)
(* or version, has a dependency name on one side only, or has a common     *)
(* dependency whose paired subtree yields a node; a pair whose only common *)
(* entries are Missing on both sides or Truncated on both sides gets None. *)
(* Every node diff_packages returns is stored in diffed_packages, so the   *)
(* statement is read on the stored nodes.                                  *)
(***************************************************************************)
OneSidedOrChangedSubtree(map) ==
    \E n \in DOMAIN map :
        \/ map[n].kind \in {"Added", "Removed"}
        \/ map[n].kind = "Changed" /\ map[n].package.kind = "Resolved"

RealDifference(pk, node) ==
    \/ pk.left.name # pk.right.name
    \/ node.version_left # node.version_right
    \/ OneSidedOrChangedSubtree(node.dependencies)
    \/ OneSidedOrChangedSubtree(node.dev_dependencies)

C11_Original ==
    \A pk \in DOMAIN diffed_packages : RealDifference(pk, diffed_packages[pk])

(***************************************************************************)
(* C13: diff_dependencies(L, R) yields one Removed entry with L's          *)
(* requirement and L's raw entry for every name of L alone, one Added      *)
(* entry with R's requirement and R's raw entry for every name of R alone, *)
(* a Changed entry or nothing for a common name, no name outside L and R,  *)
(* and diff_packages is only called for a common name.                     *)
(***************************************************************************)
DiffDepsShape(lmap, rmap, out) ==
    /\ DOMAIN out \subseteq (DOMAIN lmap) \cup (DOMAIN rmap)
    /\ \A n \in (DOMAIN lmap) \ (DOMAIN rmap) :
          /\ n \in DOMAIN out
          /\ out[n].kind = "Removed"
          /\ out[n].name = n
          /\ out[n].package = lmap[n].package
          /\ out[n].version_req_left = lmap[n].version_req
    /\ \A n \in (DOMAIN rmap) \ (DOMAIN lmap) :
          /\ n \in DOMAIN out
          /\ out[n].kind = "Added"
          /\ out[n].name = n
          /\ out[n].package = rmap[n].package
          /\ out[n].version_req_right = rmap[n].version_req
    /\ \A n \in (DOMAIN lmap) \cap (DOMAIN rmap) :
          n \in DOMAIN out => out[n].kind = "Changed"

\* an activation that is waiting for a diff_packages call it made
CallsOnlyForCommonNames(f) ==
    /\ f.pending \in (DOMAIN LeftMap(f)) \cap (DOMAIN RightMap(f))
    /\ LeftMap(f)[f.pending].package.kind = "Resolved"
    /\ RightMap(f)[f.pending].package.kind = "Resolved"

C13_DiffDependencies ==
    /\ \A pk \in DOMAIN diffed_packages :
          LET l == packages["L"][pk.left]
              r == packages["R"][pk.right]
              node == diffed_packages[pk]
          IN /\ DiffDepsShape(l.dependencies, r.dependencies, node.dependencies)
             /\ DiffDepsShape(l.dev_dependencies, r.dev_dependencies,
                              node.dev_dependencies)
    /\ \A j \in 1..Len(dstack) :
          LET f == dstack[j]
          IN /\ f.phase = "dev" =>
                   DiffDepsShape(packages["L"][f.left].dependencies,
                                 packages["R"][f.right].dependencies, f.dependencies)
             /\ j < Len(dstack) => CallsOnlyForCommonNames(f)
             /\ f.pending # NoName => CallsOnlyForCommonNames(f)

\* the roots have a name on the left alone, a name on the right alone and a
\* common name, in dependencies and in dev_dependencies
C13_Witness ==
    /\ dstatus = "done"
    /\ dresult # NoDiff
    /\ \E n, k \in DOMAIN dresult.dependencies :
          dresult.dependencies[n].kind = "Removed" /\ dresult.dependencies[k].kind = "Added"
    /\ \E n \in DOMAIN dresult.dependencies : dresult.dependencies[n].kind = "Changed"
    /\ \E n \in DOMAIN dresult.dev_dependencies :
          dresult.dev_dependencies[n].kind \in {"Added", "Removed"}

(***************************************************************************)
(* C12: the diff of (L, R) and the diff of (R, L) are mirror images: one   *)
(* is None iff the other is; the nodes are stored under exchanged paired   *)
(* keys, with the same dependency names, the left and right names,         *)
(* versions and requirements exchanged, every Added entry of one a Removed *)
(* entry of the other with the same requirement and raw entry, and every   *)
(* Changed entry carrying the exchanged paired key.                        *)
(***************************************************************************)
SwapPair(pk) == ChangedPackageKey(pk.right, pk.left)

MirrorEntry(e1, e2) ==
    IF e1.kind = "Resolved"
    THEN e2 = ChangedResolved(SwapPair(e1.key))
    ELSE e2 = e1

MirrorDep(d1, d2) ==
    /\ d2.name = d1.name
    /\ d2.version_req_left = d1.version_req_right
    /\ d2.version_req_right = d1.version_req_left
    /\ CASE d1.kind = "Added" -> d2.kind = "Removed" /\ d2.package = d1.package
         [] d1.kind = "Removed" -> d2.kind = "Added" /\ d2.package = d1.package
         [] OTHER -> d2.kind = "Changed" /\ MirrorEntry(d1.package, d2.package)

MirrorMap(m1, m2) ==
    /\ DOMAIN m1 = DOMAIN m2
    /\ \A n \in DOMAIN m1 : MirrorDep(m1[n], m2[n])

MirrorNode(pk, n1, n2) ==
    /\ n1.name = pk.left.name
    /\ n2.name = pk.right.name
    /\ n1.version_left = n2.version_right
    /\ n1.version_right = n2.version_left
    /\ MirrorMap(n1.dependencies, n2.dependencies)
    /\ MirrorMap(n1.dev_dependencies, n2.dev_dependencies)

\* both Differ::diff calls have returned
BothDiffsDone == mirror # NoMirror /\ dstatus = "done"

C12_MirrorDiff ==
    BothDiffsDone =>
        LET first == mirror.diffed_packages
            rootPair == ChangedPackageKey(result["R"].key, result["L"].key)
        IN /\ (mirror.dresult = NoDiff) <=> (dresult = NoDiff)
           /\ mirror.dresult # NoDiff =>
                  /\ dresult # NoDiff
                  /\ MirrorNode(rootPair, mirror.dresult, dresult)
           /\ DOMAIN diffed_packages = {SwapPair(pk) : pk \in DOMAIN first}
           /\ \A pk \in DOMAIN first :
                  /\ SwapPair(pk) \in DOMAIN diffed_packages
                  /\ MirrorNode(pk, first[pk], diffed_packages[SwapPair(pk)])

\* a mirrored pair of diffs with an Added entry, a Removed entry, a Changed
\* entry that carries a paired key, and a version change
C12_Witness ==
    /\ BothDiffsDone
    /\ dresult # NoDiff
    /\ \E n, k, j \in DOMAIN dresult.dependencies :
          /\ dresult.dependencies[n].kind = "Added"
          /\ dresult.dependencies[k].kind = "Removed"
          /\ dresult.dependencies[j].kind = "Changed"
          /\ dresult.dependencies[j].package.kind = "Resolved"
    /\ \E pk \in DOMAIN diffed_packages :
          diffed_packages[pk].version_left # diffed_packages[pk].version_right

(***************************************************************************)
(* C14: within one render pass children() returns the children of a node   *)
(* on the first call only, so a graph with a cycle a -> b -> a is printed  *)
(* with every node expanded at most once, and the line of an arc that      *)
(* leads to a node already expanded carries the [DEDUPED] marker.          *)
(***************************************************************************)
\* the passes that are finished and the one that is running
Passes == {renders[j] : j \in 1..Len(renders)} \cup {output}

ExpandedOnce(lines) ==
    \A i, j \in 1..Len(lines) :
        (i < j /\ lines[i].key # NoKey /\ lines[i].key = lines[j].key)
            => ~lines[j].expanded

RepeatedArcsAreMarked(lines) ==
    \A j \in 1..Len(lines) :
        (lines[j].key # NoKey /\ ~lines[j].expanded)
            => "[DEDUPED]" \in lines[j].text.markers

C14_Original ==
    \A lines \in Passes : ExpandedOnce(lines) /\ RepeatedArcsAreMarked(lines)

(***************************************************************************)
(* C15: on the first visit of a node children() returns the dependencies   *)
(* in ascending order of their names, then, when there are dev             *)
(* dependencies, the separator and the dev dependencies in ascending order *)
(* of their names, whatever the iteration order of the maps.               *)
(***************************************************************************)
\* the order of String
NameRank(n) == CASE n = "a" -> 1 [] n = "b" -> 2 [] n = "c" -> 3 [] OTHER -> 4

SeparatorAt(items) ==
    IF \E j \in 1..Len(items) : items[j].kind = "DevDependencySeparator"
    THEN CHOOSE j \in 1..Len(items) : items[j].kind = "DevDependencySeparator"
    ELSE Len(items) + 1

\* the children that are still to be printed are in ascending order on
\* each side of the separator
Ascending(items) ==
    \A i, j \in 1..Len(items) :
        (/\ i < j
         /\ items[i].kind = "Child"
         /\ items[j].kind = "Child"
         /\ (i < SeparatorAt(items)) = (j < SeparatorAt(items)))
            => NameRank(items[i].dependency.name) < NameRank(items[j].dependency.name)

C15_Original == \A j \in 1..Len(rstack) : Ascending(rstack[j])

(***************************************************************************)
(* C16: two renders of the same node of a resolved graph print the same    *)
(* lines, expand the same nodes and mark the same nodes, whatever was      *)
(* rendered before: every pass starts with the visited flag of every node  *)
(* of packages false.                                                      *)
(***************************************************************************)
\* print_tree has called refresh_visited and the printer has not started
PassStarts == rstack # <<>> /\ output = <<>>

C16_RendersAgree ==
    /\ \A i, j \in 1..Len(renders) :
          renders[i][1].key = renders[j][1].key => renders[i] = renders[j]
    /\ PassStarts => \A k \in DOMAIN packages["L"] : ~packages["L"][k].visited

\* a node is rendered, another node is rendered, the first node is rendered
\* again; the passes expand nodes and meet a node already expanded
C16_Witness ==
    \E i, j, k \in 1..Len(renders) :
        /\ i < j /\ j < k
        /\ renders[i][1].key = renders[k][1].key
        /\ renders[i][1].key # renders[j][1].key
        /\ Len(renders[i]) > 2
        /\ Len(renders[j]) > 2
        /\ \E n \in 1..Len(renders[i]) :
              renders[i][n].key # NoKey /\ ~renders[i][n].expanded

(***************************************************************************)
(* C17: the root that search_workspace_root_from selects for Q is an       *)
(* ancestor-or-self directory A of Q whose manifest declares workspaces,   *)
(* and A = Q or the glob set of A matches Q; this also holds when A was    *)
(* registered in workspace_roots by an earlier call.                       *)
(***************************************************************************)
IsAncestorOrSelf(a, q) == Len(a) <= Len(q) /\ SubSeq(q, 1, Len(a)) = a

C17_Original ==
    (search.status = "done" /\ search.found) =>
        LET A == search.root
            Q == search.package_path
            globs == GetWorkspaceGlobs(fs, A)
        IN /\ IsAncestorOrSelf(A, Q)
           /\ globs # {}
           /\ A = Q \/ GlobSetIsMatch(globs, Q)

(***************************************************************************)
(* C18: for every workspace root A and every member m that the globs of A  *)
(* expand to, the glob set of A matches the install path of m, and the     *)
(* upward search started at m returns A.  The second half is read for a    *)
(* member of one root only that declares no workspaces itself, searched    *)
(* when no other root is registered and A has its node_modules: the walk   *)
(* from m ends within Len(m) moves to the parent and its result is A.      *)
(***************************************************************************)
WorkspaceRootDirs == { d \in Dirs : GetWorkspaceGlobs(fs, d) # {} }

MemberOfOneRoot(A, m) ==
    /\ GetWorkspaceGlobs(fs, m) = {}
    /\ \A B \in WorkspaceRootDirs : m \in Members(fs, B) => B = A

C18_Original ==
    \A A \in WorkspaceRootDirs :
        \A m \in Members(fs, A) :
            /\ GlobSetIsMatch(GetWorkspaceGlobs(fs, A), m)
            /\ (/\ MemberOfOneRoot(A, m)
                /\ ~FromFolderFails(fs, A)
                /\ DOMAIN workspace_roots \subseteq {A}
                /\ search.status # "idle"
                /\ search.package_path = m)
                   => /\ search.steps <= Len(m)
                      /\ search.status # "error"
                      /\ search.status = "done" => (search.found /\ search.root = A)

(***************************************************************************)
(* C19: a manifest whose canonical install path has a node_modules segment *)
(* is loaded with empty dev_dependencies, whatever its devDependencies     *)
(* field holds, also when it was read through a symbolic link whose own    *)
(* path has no node_modules in it.                                         *)
(***************************************************************************)
HasNodeModulesSegment(path) == \E j \in 1..Len(path) : path[j] = "node_modules"

C19_Original ==
    (manifest_load.status = "loaded"
        /\ HasNodeModulesSegment(manifest_load.record.install_path))
            => manifest_load.record.dev_dependencies = {}

(***************************************************************************)
(* C20: two version requirements are equal iff they have the same variant  *)
(* and equal payloads; the equality is reflexive for every variant and     *)
(* symmetric, and a diff line shows a requirement change only when the two *)
(* requirements differ.                                                    *)
(***************************************************************************)
C20_Original ==
    req_cmp.status = "compared" =>
        /\ req_cmp.eq = (req_cmp.left = req_cmp.right)
        /\ req_cmp.eq = req_cmp.eq_mirror
        /\ req_cmp.shows_change => req_cmp.left # req_cmp.right

(***************************************************************************)
(* C21: matches(version) is Some(b) for a SemVer requirement, b true iff   *)
(* the range holds the version; Some(b) for an Or, b true iff at least one *)
(* part returns Some(true), so that an Or of parts that cannot be checked  *)
(* gives Some(false); and None for Workspace and Unchecked.                *)
(***************************************************************************)
PartHolds(part, version) ==
    part.variant = "SemVer" /\ version = CaretMajor(part.text)

C21_Matches ==
    req_cmp.status = "matched" =>
        LET r == req_cmp.req
            v == req_cmp.version
        IN CASE r.variant = "SemVer" ->
                  req_cmp.matches = SomeOf(v = CaretMajor(r.text))
             [] r.variant = "Or" ->
                  req_cmp.matches =
                      SomeOf(\E j \in 1..Len(r.parts) : PartHolds(r.parts[j], v))
             [] OTHER -> req_cmp.matches = NoneOf

\* an Or of a Workspace part and an Unchecked part has returned Some(false)
C21_Witness ==
    /\ req_cmp.status = "matched"
    /\ req_cmp.req = Or(<<Req("Unchecked", "latest"), Req("Workspace", "*")>>)
    /\ req_cmp.matches = SomeOf(FALSE)

(***************************************************************************)
(* C22: search_workspace_root_from terminates: every iteration of the      *)
(* upward walk that does not return moves current_path to its parent       *)
(* directory, also at a directory that declares workspaces whose glob set  *)
(* does not match the path searched from.                                  *)
(***************************************************************************)
C22_Original ==
    [][(search.status = "running" /\ search'.status = "running")
          => search'.current_path = Pop(search.current_path)]_vars

(***************************************************************************)
(* C23: after diff_packages(l, r) has returned, diffed_packages holds an   *)
(* entry under the paired key (key(l), key(r)): None for an unchanged      *)
(* pair, the diff node otherwise.  Read on the outermost call, the one of  *)
(* Differ::diff on the two roots.                                          *)
(***************************************************************************)
C23_Original ==
    dstatus = "done" =>
        /\ RootPair \in DOMAIN diffed_packages
        /\ diffed_packages[RootPair] = dresult

(***************************************************************************)
(* C24: the table of diff_entries, read on the nodes that diff_packages    *)
(* has stored: for a name n that both sides declare,                       *)
(*   (Missing, Missing) gives Missing, (Truncated, Truncated) gives        *)
(*   Truncated, two different kinds give MismatchedResolution, and         *)
(*   (Resolved(kL), Resolved(kR)) gives no entry when a node is absent     *)
(*   from its resolver or when diff_packages returns None for the two      *)
(*   nodes, and Resolved(paired_key(kL, kR)) when it returns a node.       *)
(* As claimed, the last pairing gives Resolved(paired_key(kL, kR))         *)
(* whatever diff_packages returned.                                        *)
(***************************************************************************)
BothResolved(le, re) == le.kind = "Resolved" /\ re.kind = "Resolved"

NodesPresent(le, re) ==
    /\ le.key \in DOMAIN packages["L"]
    /\ re.key \in DOMAIN packages["R"]

EmitsChanged(out, n, entry) ==
    /\ n \in DOMAIN out
    /\ out[n].kind = "Changed"
    /\ out[n].package = entry

\* the pairings that need no node
LeafTable(le, re, out, n) ==
    CASE le.kind = "Missing" /\ re.kind = "Missing" -> EmitsChanged(out, n, ChangedMissing)
      [] le.kind = "Truncated" /\ re.kind = "Truncated" -> EmitsChanged(out, n, ChangedTruncated)
      [] OTHER -> EmitsChanged(out, n, MismatchedResolution)

ResolvedTable(le, re, out, n) ==
    LET pk == ChangedPackageKey(le.key, re.key)
    IN IF NodesPresent(le, re) /\ pk \in DOMAIN diffed_packages
       THEN EmitsChanged(out, n, ChangedResolved(pk))
       ELSE n \notin DOMAIN out

ResolvedTableAsClaimed(le, re, out, n) ==
    LET pk == ChangedPackageKey(le.key, re.key)
    IN IF NodesPresent(le, re)
       THEN EmitsChanged(out, n, ChangedResolved(pk))
       ELSE n \notin DOMAIN out

FollowsTable(lmap, rmap, out) ==
    \A n \in (DOMAIN lmap) \cap (DOMAIN rmap) :
        LET le == lmap[n].package
            re == rmap[n].package
        IN IF BothResolved(le, re)
           THEN ResolvedTable(le, re, out, n)
           ELSE LeafTable(le, re, out, n)

FollowsTableAsClaimed(lmap, rmap, out) ==
    \A n \in (DOMAIN lmap) \cap (DOMAIN rmap) :
        LET le == lmap[n].package
            re == rmap[n].package
        IN IF BothResolved(le, re)
           THEN ResolvedTableAsClaimed(le, re, out, n)
           ELSE LeafTable(le, re, out, n)

C24_DiffEntries ==
    \A pk \in DOMAIN diffed_packages :
        LET l == packages["L"][pk.left]
            r == packages["R"][pk.right]
            node == diffed_packages[pk]
        IN /\ FollowsTable(l.dependencies, r.dependencies, node.dependencies)
           /\ FollowsTable(l.dev_dependencies, r.dev_dependencies, node.dev_dependencies)

C24_Original ==
    \A pk \in DOMAIN diffed_packages :
        LET l == packages["L"][pk.left]
            r == packages["R"][pk.right]
            node == diffed_packages[pk]
        IN /\ FollowsTableAsClaimed(l.dependencies, r.dependencies, node.dependencies)
           /\ FollowsTableAsClaimed(l.dev_dependencies, r.dev_dependencies,
                                    node.dev_dependencies)

\* the diff has returned a root node in which one common dependency is
\* Resolved on both sides and dropped (its pair is unchanged) and another
\* one is emitted as Resolved
C24_Witness ==
    /\ dstatus = "done"
    /\ RootPair \in DOMAIN diffed_packages
    /\ LET l == packages["L"][RootPair.left].dependencies
           r == packages["R"][RootPair.right].dependencies
           out == diffed_packages[RootPair].dependencies
       IN /\ \E n \in (DOMAIN l) \cap (DOMAIN r) :
                /\ BothResolved(l[n].package, r[n].package)
                /\ n \notin DOMAIN out
          /\ \E n \in DOMAIN out :
                out[n].kind = "Changed" /\ out[n].package.kind = "Resolved"

(***************************************************************************)
(* C25: a child of a diff node is displayable iff its paired identities    *)
(* differ (name or version) or at least one of its descendants is          *)
(* displayable; the decision does not depend on whether the child's node   *)
(* has been visited earlier in the render pass, and a node reached again   *)
(* while its own decision is in progress counts as not displayable.  An    *)
(* entry that is not Changed/Resolved is always displayable.               *)
(***************************************************************************)
RECURSIVE Displayable(_, _, _)
Displayable(dps, deciding, item) ==
    IF item.kind = "Child" /\ IsChangedResolved(item.dependency)
    THEN LET key == item.dependency.package.key
         IN \/ key.left.name # key.right.name
            \/ key.left.version # key.right.version
            \/ /\ item.package # NoPair
               /\ \E j \in 1..Len(ItemGetChildren(dps, item)) :
                     LET c == ItemGetChildren(dps, item)[j]
                     IN /\ c.package \notin deciding \cup {item.package}
                        /\ Displayable(dps, deciding \cup {item.package}, c)
    ELSE TRUE

ChildrenAreTheDisplayable(lines) ==
    \A j \in 1..Len(lines) :
        lines[j].expanded =>
            lines[j].children =
                SelectSeq(DiffedGetChildren(diffed_packages, lines[j].key),
                          LAMBDA c : Displayable(diffed_packages, {}, c))

C25_Original == ChildrenAreTheDisplayable(output)

(***************************************************************************)
(* C26: every resolve_package call that pushed its key onto visiting and   *)
(* incremented current_depth pops the key and decrements before it         *)
(* returns, also when it returns an error: visiting is always the list of  *)
(* the keys of the calls in progress and current_depth their number, so    *)
(* that after a resolve that failed both have their values at entry.       *)
(***************************************************************************)
KeysInProgress(s) ==
    IF status[s] = "running" THEN [j \in 1..Len(stack) |-> stack[j].key] ELSE <<>>

C26_Original ==
    \A s \in Sides :
        /\ visiting[s] = KeysInProgress(s)
        /\ current_depth[s] = Len(KeysInProgress(s))

(***************************************************************************)
(* C27: over any sequence of resolve calls through one resolver (the       *)
(* workspace root, then its member, in any order and number) and of        *)
(* renders in between, the packages map only grows: a key once present is  *)
(* never removed, its node is never replaced, and the node's name, version *)
(* and dependency maps never change; only the visited flag is written.     *)
(***************************************************************************)
Unflagged(p) == [p EXCEPT !.visited = FALSE]

C27_PackagesOnlyGrow ==
    [][\A s \in Sides : \A k \in DOMAIN packages[s] :
          /\ k \in DOMAIN packages'[s]
          /\ Unflagged(packages'[s][k]) = Unflagged(packages[s][k])]_vars

\* the root, a dependency of it and the member have their nodes, stored by
\* two different top-level calls, and a node carries a visited flag
C27_Witness ==
    /\ Returned("L")
    /\ {KeyOf(inst["L"], "root"), KeyOf(inst["L"], "a"), KeyOf(inst["L"], MemberId)}
          \subseteq DOMAIN packages["L"]
    /\ "a" \in DOMAIN packages["L"][KeyOf(inst["L"], MemberId)].dependencies
    /\ packages["L"][KeyOf(inst["L"], "a")].visited
    /\ renders # <<>>

(***************************************************************************)
(* C28: for any sequence of resolve calls on one Resolver, workspace_roots *)
(* holds one (manifest, resolver) pair per workspace-root path: a pair is  *)
(* never removed or replaced, no two paths share a resolver, a search that *)
(* returns a root returns the resolver stored for it, the stored one       *)
(* unchanged when the root was registered before, and a call that fails    *)
(* while building the root's resolver leaves workspace_roots unchanged.    *)
(***************************************************************************)
PairsKept ==
    \A d \in DOMAIN workspace_roots :
        /\ d \in DOMAIN workspace_roots'
        /\ workspace_roots'[d] = workspace_roots[d]

C28_WorkspaceRoots ==
    [][/\ PairsKept
       /\ \A d, e \in DOMAIN workspace_roots' :
             d # e => workspace_roots'[d] # workspace_roots'[e]
       /\ search'.status = "error" => workspace_roots' = workspace_roots
       /\ (search.status = "running" /\ search'.status = "done" /\ search'.found)
             => /\ search'.root \in DOMAIN workspace_roots'
                /\ search'.resolver = workspace_roots'[search'.root]
                /\ search'.reused = (search'.root \in DOMAIN workspace_roots)]_vars

\* two roots are registered, and a later search from a path below one of
\* them has returned the resolver that was stored for it
C28_Witness ==
    /\ Cardinality(DOMAIN workspace_roots) = 2
    /\ search.status = "done"
    /\ search.found
    /\ search.reused
    /\ search.package_path # search.root
    /\ search.resolver = workspace_roots[search.root]

(***************************************************************************)
(* C29: whenever search_workspace_root_from(Q) returns a workspace root,   *)
(* the root's get_data_from_path(Q) returns a manifest, so the expect in   *)
(* Resolver::resolve is never reached with None.                           *)
(***************************************************************************)
C29_Original == search.status # "panic"

(***************************************************************************)
(* C30: after Differ::diff has returned, every Changed dependency of a     *)
(* stored diff node whose entry is Resolved(pk) has a diff node cached     *)
(* under pk: Differ::get_package(pk) is not None.                          *)
(***************************************************************************)
ChangedResolvedKeys(node) ==
    {node.dependencies[n].package.key :
        n \in {x \in DOMAIN node.dependencies : IsChangedResolved(node.dependencies[x])}}
    \cup
    {node.dev_dependencies[n].package.key :
        n \in {x \in DOMAIN node.dev_dependencies : IsChangedResolved(node.dev_dependencies[x])}}

C30_ChangedResolvedHaveNodes ==
    dstatus = "done" =>
        \A pk \in DOMAIN diffed_packages :
            \A ck \in ChangedResolvedKeys(diffed_packages[pk]) :
                DifferGetPackage(diffed_packages, ck) # NoPair

\* the diff has returned a root node with a Changed/Resolved entry whose
\* node has a Changed/Resolved entry itself
C30_Witness ==
    /\ dstatus = "done"
    /\ RootPair \in DOMAIN diffed_packages
    /\ \E ck \in ChangedResolvedKeys(diffed_packages[RootPair]) :
          /\ ck \in DOMAIN diffed_packages
          /\ ChangedResolvedKeys(diffed_packages[ck]) # {}

====
